---- MODULE Spec2Model ----
(***************************************************************************)
(* Model of the video-transcriptor pipeline: the upload handler and its    *)
(* stage sequence (server), the per-scene narrative loop                   *)
(* (visionProcessor.js), the job / story lookups, the narration endpoints, *)
(* the sentence chunker splitTextBySentence, the scene list parser, the    *)
(* audio extractor and the keyframe extractor on their own, the runs of    *)
(* processVideo with the queue publisher they share, and narration         *)
(* requests that are under way at once.                                    *)
(*                                                                         *)
(* Texts are sequences of one-character strings.  A JavaScript value that  *)
(* is undefined, null or "" (all falsy) is the empty sequence.             *)
(***************************************************************************)
EXTENDS Integers, Sequences, FiniteSets, TLC

\* ------------------------------------------------------------------ bounds
MaxScenes == 3
MaxDownloadTicks == 1
MaxTextLen == 5
MaxBudget == 3
MaxNarrationRequests == 4

\* --------------------------------------------------------------- constants
MAX_DURATION_SECONDS == 1000
keyframesPerScene == 3
\* The character budget of the narration endpoint.  The server uses 2000;
\* the model scales it down so that a handful of two-character fragments
\* overflows it.
chunkSize == 4

\* The characters the chunker is exercised on: a letter, a blank, a sentence
\* terminator, a line break and a closing quote.
Alphabet == {"a", " ", ".", "\n", "'"}

Texts == UNION {[1..n -> Alphabet] : n \in 0..MaxTextLen}

VARIABLES
  \* ---- sentence chunker, exercised on its own
  text, maxLen, chunks, splitDone,
  \* ---- one upload request and the job directory it fills
  req,            \* the request body and file
  pc,             \* the await the upload handler is suspended at
  trace,          \* SSE events written, and calls / returns of awaited operations
  ticks,          \* onProgress callbacks of the download so far
  files,          \* the job directory: file name -> content
  detector,       \* how the scenedetect process ended
  scenes,         \* number of scenes returned by detectScenes
  audioSegments,  \* scene numbers of the audio segments, in list order
  keyframeData,   \* number of keyframes per scene
  sceneIdx,       \* loop position of processOutputFolder
  results,        \* the results array of processOutputFolder
  prompts,        \* the interpretation calls made: scene and continuity context
  outcome,        \* what happened to each scene visited so far
  fault,          \* the operation whose failure reached the handler's catch
  composition,    \* how the whole-story composition call ended
  transcripts,    \* the scenes transcribeAudio was called for, in order
  summary,        \* the summary of the 'complete' event
  connected,      \* the listener is still connected to the progress channel
  personas,       \* what loadPersonas returned to processOutputFolder
  storyInput,     \* what the composition call was given
  sceneData,      \* the audio clip merged into each scene of the manifest
  lastLookup,     \* the response of the latest job / story lookup
  \* ---- narration endpoints
  narrLog,        \* the responses of the narration requests, in order
  \* ---- the extractors, exercised on their own
  sceneList,      \* the scenes handed to the extractor
  audioRun,       \* one call of splitAudioByScenes
  keyframeRun,    \* one call of extractKeyframes
  \* ---- detectScenes, exercised on its own
  sceneListFile,  \* the scene list file the detector left
  detectRun,      \* one call of detectScenes
  \* ---- the queue publisher and the runs of processVideo that share it
  connection,     \* the module variable connection: 0 for null, or a handle
  sceneQueue,     \* the module variable sceneQueue: 0 for null, or a handle
  handles,        \* the Redis connections created so far, with their queues
  runs,           \* the runs of processVideo
  \* ---- narration requests under way at once
  calls           \* the narration requests and the await each is suspended at

splitVars == <<text, maxLen, chunks, splitDone>>
extractVars == <<sceneList, audioRun, keyframeRun>>
detectVars == <<sceneListFile, detectRun>>
queueVars == <<connection, sceneQueue, handles, runs>>
raceVars == <<calls>>
jobVars == <<req, pc, trace, ticks, files, detector, scenes, audioSegments,
             keyframeData, sceneIdx, results, prompts, outcome, fault,
             composition, transcripts, summary, connected, personas,
             storyInput, sceneData>>
vars == <<jobVars, lastLookup, narrLog, splitVars, extractVars, detectVars,
          queueVars, raceVars>>

\* ============================================================ text helpers
Min(S) == CHOOSE x \in S : \A y \in S : x <= y
Max(S) == CHOOSE x \in S : \A y \in S : x >= y

\* [.!?]
Terminators == {".", "!", "?"}
\* the closers class of the pattern: bracket, parenthesis, apostrophe (the
\* double quote, the backquote and the two typographic quotes of the
\* source's class are left out; they behave like the apostrophe)
Closers == {"]", ")", "'"}
\* the characters "." does not match
LineTerminators == {"\n", "\r"}
\* the characters String.prototype.trim() removes
WhiteSpace == {" ", "\n", "\r", "\t"}

\* first index >= p whose character is in S, Len+1 if there is none
NextIn(t, p, S) ==
  LET hits == {i \in p..Len(t) : t[i] \in S}
  IN IF hits = {} THEN Len(t) + 1 ELSE Min(hits)

\* first index >= p whose character is not in S, Len+1 if there is none
NextNotIn(t, p, S) ==
  LET hits == {i \in p..Len(t) : t[i] \notin S}
  IN IF hits = {} THEN Len(t) + 1 ELSE Min(hits)

\* One attempt of the sentence pattern at position p (first alternative: a
\* run of non-terminators, a run of terminators, a run of closers; second
\* alternative: the rest of the line): the index just after the match, 0
\* when neither alternative matches at p.
MatchEnd(t, p) ==
  LET q  == NextIn(t, p, Terminators)        \* end of [^.!?]+
      r  == NextNotIn(t, q, Terminators)     \* end of [.!?]+
      e1 == NextNotIn(t, r, Closers)         \* end of the closers
      e2 == NextIn(t, p, LineTerminators)    \* end of .+
  IN IF q > p /\ q <= Len(t) THEN e1
     ELSE IF e2 > p THEN e2
     ELSE 0

RECURSIVE MatchAll(_, _)
\* text.match(/.../g) || [] from position p on
MatchAll(t, p) ==
  IF p > Len(t) THEN <<>>
  ELSE LET e == MatchEnd(t, p)
       IN IF e = 0 THEN MatchAll(t, p + 1)
          ELSE <<SubSeq(t, p, e - 1)>> \o MatchAll(t, e)

sentences(t) == MatchAll(t, 1)

\* String.prototype.trim()
trim(s) ==
  LET keep == {i \in 1..Len(s) : s[i] \notin WhiteSpace}
  IN IF keep = {} THEN <<>> ELSE SubSeq(s, Min(keep), Max(keep))

\* the test of the packing loop: (current + s).length > maxLen && current.length > 0
Overflows_late(current, s, budget) == Len(current) > budget /\ Len(current) > 0
Overflows(current, s, budget) == Len(current \o s) > budget /\ Len(current) > 0

RECURSIVE Pack(_, _, _, _, _)
\* the for loop over the sentences and the final push
Pack(ss, i, current, out, budget) ==
  IF i > Len(ss)
  THEN IF Len(current) > 0 THEN Append(out, trim(current)) ELSE out
  ELSE IF Overflows(current, ss[i], budget)
       THEN Pack(ss, i + 1, ss[i], Append(out, trim(current)), budget)
       ELSE Pack(ss, i + 1, current \o ss[i], out, budget)

splitTextBySentence(t, budget) == Pack(sentences(t), 1, <<>>, <<>>, budget)

\* ============================================================ the job files
NoFiles == [n \in {} |-> <<>>]
Exists(f, name) == name \in DOMAIN f
\* fs.writeFile(name, content)
Put(f, name, content) ==
  [n \in DOMAIN f \cup {name} |-> IF n = name THEN content ELSE f[n]]

\* ====================================================== events and the trace
Progress(step, status) ==
  [k |-> "sse", ev |-> "progress", step |-> step, status |-> status]
Terminal(ev) == [k |-> "sse", ev |-> ev, step |-> "-", status |-> "-"]
Call(op) == [k |-> "call", ev |-> op, step |-> "-", status |-> "-"]
Return(op) == [k |-> "ret", ev |-> op, step |-> "-", status |-> "ok"]
Throw(op) == [k |-> "ret", ev |-> op, step |-> "-", status |-> "throw"]

IsTerminal(e) == e.k = "sse" /\ e.ev \in {"complete", "error"}
\* the SSE stream the caller sees
events == SelectSeq(trace, LAMBDA e : e.k = "sse")

\* ================================================================= requests
NoText == <<>>
Requests ==
  [resourceType : {"url", "video"},
   youtubeUrl   : {"none", "invalid", "valid"},
   file         : BOOLEAN,
   personas     : {NoText, <<"p", " ">>}]

\* a request carries what its resource type reads, and nothing else varies
RelevantRequest(r) ==
  IF r.resourceType = "url" THEN r.file = FALSE ELSE r.youtubeUrl = "none"

\* ============================================================ scene detector
\* Times are whole milliseconds: parseSceneList rounds them to three decimals.
RECURSIVE ScenesFrom(_, _, _)
\* consecutive scenes k, k+1, ... with the durations ds, the first at start
ScenesFrom(ds, k, start) ==
  IF k > Len(ds) THEN <<>>
  ELSE <<[sceneNumber |-> k, startTime |-> start, endTime |-> start + ds[k]]>>
       \o ScenesFrom(ds, k + 1, start + ds[k])

\* The scene list file scenedetect leaves in the output directory: absent, or
\* two header lines and a number of data rows.  badNumber holds the rows whose
\* first column is not a number, badTimes the rows whose time columns are not.
NoCsv == [present |-> FALSE, rows |-> 0, badNumber |-> {}, badTimes |-> {}]
\* the well-formed scene list files
SceneListFiles ==
  {NoCsv} \cup {[present |-> TRUE, rows |-> n, badNumber |-> {}, badTimes |-> {}] :
                  n \in 0..MaxScenes}
\* every scene list file, well-formed or not
AnySceneListFiles ==
  {NoCsv} \cup UNION {
    {[present |-> TRUE, rows |-> n, badNumber |-> bn, badTimes |-> bt] :
       bn \in SUBSET (1..n), bt \in SUBSET (1..n)} : n \in 0..MaxScenes}

\* the length of a scene in a scene list file, as tried here
RowDuration == 4

\* parseInt and parseFloat give NaN for a column that is not a number:
\* numberOk = FALSE stands for sceneNumber = NaN, timesOk = FALSE for
\* startTime = endTime = NaN (the integers in these fields are then unused).
\* Nothing is checked and every data row is pushed.
parseSceneList(csv) ==
  IF ~csv.present
  THEN <<[sceneNumber |-> 1, startTime |-> 0, endTime |-> 0,
          numberOk |-> TRUE, timesOk |-> TRUE]>>
  ELSE LET rows == ScenesFrom([k \in 1..csv.rows |-> RowDuration], 1, 0)
       IN [k \in 1..csv.rows |->
             [sceneNumber |-> rows[k].sceneNumber,
              startTime |-> rows[k].startTime,
              endTime |-> rows[k].endTime,
              numberOk |-> k \notin csv.badNumber,
              timesOk |-> k \notin csv.badTimes]]

NotRun == [started |-> FALSE, code |-> -1, csv |-> NoCsv]
DetectorOutcomes ==
  {[started |-> TRUE, code |-> 0, csv |-> NoCsv],
   [started |-> TRUE, code |-> 1, csv |-> NoCsv],
   [started |-> FALSE, code |-> 0, csv |-> NoCsv]}

\* no 'complete' event was sent
\* generateFinalStory was not called
NoStoryInput == [called |-> FALSE, scenes |-> <<>>, personas |-> <<>>]

NoSummary ==
  [scenesDetected |-> 0, audioSegments |-> 0, keyframesExtracted |-> 0]

JobBlank ==
  /\ trace = <<>>
  /\ ticks = 0
  /\ detector = NotRun
  /\ scenes = 0
  /\ audioSegments = <<>>
  /\ keyframeData = <<>>
  /\ sceneIdx = 0
  /\ results = <<>>
  /\ prompts = <<>>
  /\ outcome = <<>>
  /\ fault = "none"
  /\ composition = "none"
  /\ transcripts = <<>>
  /\ summary = NoSummary
  /\ connected = TRUE
  /\ personas = NoText
  /\ storyInput = NoStoryInput
  /\ sceneData = <<>>

\* ========================================================= audio extractor
\* scene.endTime - scene.startTime
sceneDuration(scene) == scene.endTime - scene.startTime

\* the test of the audio loop that skips a scene
InvalidDuration_negative(d) == d < 0
InvalidDuration(d) == d <= 0

\* the entry pushed for an extracted segment
AudioEntry(scene) ==
  [sceneNumber |-> scene.sceneNumber, startTime |-> scene.startTime,
   endTime |-> scene.endTime]

\* the catch of the audio loop: nothing is pushed, the loop goes on
OnSegmentError_push(res, scene) == Append(res, AudioEntry(scene))
OnSegmentError(res, scene) == res

RECURSIVE AudioLoop(_, _, _, _)
\* The for loop of splitAudioByScenes from position i on; failed holds the
\* positions whose extractAudioSegment rejects.  acc.attempts are the scene
\* numbers extractAudioSegment was called for, acc.results the results array.
AudioLoop(sl, i, failed, acc) ==
  IF i > Len(sl) THEN acc
  ELSE IF InvalidDuration(sceneDuration(sl[i]))
       THEN AudioLoop(sl, i + 1, failed, acc)
       ELSE AudioLoop(sl, i + 1, failed,
              [attempts |-> Append(acc.attempts, sl[i].sceneNumber),
               results  |-> IF i \in failed
                            THEN OnSegmentError(acc.results, sl[i])
                            ELSE Append(acc.results, AudioEntry(sl[i]))])

splitAudioByScenes(sl, failed) ==
  AudioLoop(sl, 1, failed, [attempts |-> <<>>, results |-> <<>>])

\* ====================================================== keyframe extractor
\* Sampled timestamps are kept in units of 1/(count + 1) millisecond, so that
\* the division of the duration by count + 1 is exact.

\* (duration / (count + 1)) * (i + 1), for the loop index i = 0 .. count - 1
FrameOffset_fromZero(d, i) == d * i
FrameOffset(d, i) == d * (i + 1)

\* the timestamps array of extractSceneKeyframes
timestamps(scene, count) ==
  [j \in 1..count |->
     (count + 1) * scene.startTime + FrameOffset(sceneDuration(scene), j - 1)]

\* Math.round(timestamp * 1000) / 1000, in milliseconds: floor(x + 1/2)
RoundMs(ts, count) == (2 * ts + (count + 1)) \div (2 * (count + 1))

\* the 'error' listener of a frame extraction
OnFrameError_reject == "reject"
OnFrameError == "resolve"

\* path.join(outputDir, 'frame_' + (index + 1) + '.jpg') for the loop index:
\* the number in the name of the file
FramePath(loopIndex) == [file |-> "frame", number |-> loopIndex + 1]

\* the keyframes are returned in the order their extractions ended
SortByIndex_asPushed(kfs) == kfs
\* keyframes.sort((a, b) => a.index - b.index), the indices being distinct
SortByIndex(kfs) ==
  [i \in DOMAIN kfs |->
     CHOOSE r \in {kfs[j] : j \in DOMAIN kfs} :
       Cardinality({j \in DOMAIN kfs : kfs[j].index <= r.index}) = i]

\* the orders in which the count concurrent frame extractions can finish
Orders(count) ==
  {o \in [1..count -> 1..count] : \A i, j \in 1..count : i # j => o[i] # o[j]}

\* the frames whose 'end' listener ran, in the order they finished
Ended(failedFrames, order) ==
  SelectSeq(order, LAMBDA index : index \notin failedFrames)

\* The keyframes extractSceneKeyframes resolves with: the frames whose
\* extraction ended are pushed in the order they finish, then sorted.
extractSceneKeyframes(scene, count, failedFrames, order) ==
  LET ts     == timestamps(scene, count)
      ended  == Ended(failedFrames, order)
      pushed == [n \in DOMAIN ended |->
                   [index |-> ended[n],
                    timestamp |-> RoundMs(ts[ended[n]], count),
                    path |-> FramePath(ended[n] - 1)]]
  IN SortByIndex(pushed)

\* ========================================================== upload handler
\* the catch block of the handler, and the early error returns: one error
\* event, then res.end()
Abort(op, why) ==
  /\ trace' = trace \o <<Throw(op), Terminal("error")>>
  /\ fault' = why
  /\ pc' = "done"

Reject(why) ==
  /\ trace' = Append(trace, Terminal("error"))
  /\ fault' = why
  /\ pc' = "done"

\* entry of the handler up to its first await
Begin ==
  /\ pc = "start"
  /\ IF req.resourceType = "url"
     THEN IF req.youtubeUrl = "none" THEN Reject("noUrl")
          ELSE IF req.youtubeUrl = "invalid" THEN Reject("invalidUrl")
          ELSE /\ trace' = trace \o <<Progress("youtube", "started"),
                                      Call("downloadYoutubeVideo")>>
               /\ pc' = "download"
               /\ UNCHANGED fault
     ELSE IF ~req.file THEN Reject("noFile")
          ELSE /\ trace' = trace \o <<Progress("upload", "completed"),
                                      Progress("validation", "started"),
                                      Call("getVideoDuration")>>
               /\ pc' = "probe"
               /\ UNCHANGED fault
  /\ UNCHANGED <<lastLookup, narrLog, splitVars, extractVars, detectVars,
               queueVars, raceVars>>
  /\ UNCHANGED <<req, ticks, files, detector, scenes, audioSegments,
                 keyframeData, sceneIdx, results, prompts, outcome,
                 composition, transcripts,
                 summary, connected,
                 personas, storyInput, sceneData>>

\* the onProgress callback of the download
DownloadProgress ==
  /\ pc = "download"
  /\ ticks < MaxDownloadTicks
  /\ ticks' = ticks + 1
  /\ trace' = Append(trace, Progress("youtube", "downloading"))
  /\ UNCHANGED <<lastLookup, narrLog, splitVars, extractVars, detectVars,
               queueVars, raceVars>>
  /\ UNCHANGED <<req, pc, files, detector, scenes, audioSegments,
                 keyframeData, sceneIdx, results, prompts, outcome, fault,
                 composition, transcripts,
                 summary, connected,
                 personas, storyInput, sceneData>>

\* what follows a resolved download up to the next await
AfterDownload(tr) ==
  tr \o <<Return("downloadYoutubeVideo"),
          Progress("youtube", "completed"),
          Progress("validation", "completed"),
          Call("mkdir")>>

DownloadReturn ==
  /\ pc = "download"
  /\ \E ok \in BOOLEAN :
       IF ok
       THEN /\ trace' = AfterDownload(trace)
            /\ pc' = "mkdir"
            /\ UNCHANGED fault
       ELSE Abort("downloadYoutubeVideo", "downloadYoutubeVideo")
  /\ UNCHANGED <<lastLookup, narrLog, splitVars, extractVars, detectVars,
               queueVars, raceVars>>
  /\ UNCHANGED <<req, ticks, files, detector, scenes, audioSegments,
                 keyframeData, sceneIdx, results, prompts, outcome,
                 composition, transcripts,
                 summary, connected,
                 personas, storyInput, sceneData>>

Durations == {MAX_DURATION_SECONDS, MAX_DURATION_SECONDS + 1}

\* the duration check without its early return
ProbeReturn_noReturn ==
  /\ pc = "probe"
  /\ \/ Abort("getVideoDuration", "getVideoDuration")
     \/ \E duration \in Durations :
          /\ trace' = trace \o
               (IF duration > MAX_DURATION_SECONDS
                THEN <<Return("getVideoDuration"), Terminal("error")>>
                ELSE <<Return("getVideoDuration")>>)
               \o <<Progress("validation", "completed"), Call("mkdir")>>
          /\ pc' = "mkdir"
          /\ UNCHANGED fault
  /\ UNCHANGED <<lastLookup, narrLog, splitVars, extractVars, detectVars,
               queueVars, raceVars>>
  /\ UNCHANGED <<req, ticks, files, detector, scenes, audioSegments,
                 keyframeData, sceneIdx, results, prompts, outcome,
                 composition, transcripts,
                 summary, connected,
                 personas, storyInput, sceneData>>

\* getVideoDuration returned: the duration check
ProbeReturn ==
  /\ pc = "probe"
  /\ \/ Abort("getVideoDuration", "getVideoDuration")
     \/ \E duration \in Durations :
          IF duration > MAX_DURATION_SECONDS
          THEN \* fs.unlink, then the error event; a failing unlink reaches
               \* the catch, which sends the error event instead
               \E unlinked \in BOOLEAN :
                 /\ trace' = trace \o <<Return("getVideoDuration"),
                                        Terminal("error")>>
                 /\ fault' = IF unlinked THEN "tooLong" ELSE "unlink"
                 /\ pc' = "done"
          ELSE /\ trace' = trace \o <<Return("getVideoDuration"),
                                      Progress("validation", "completed"),
                                      Call("mkdir")>>
               /\ pc' = "mkdir"
               /\ UNCHANGED fault
  /\ UNCHANGED <<lastLookup, narrLog, splitVars, extractVars, detectVars,
               queueVars, raceVars>>
  /\ UNCHANGED <<req, ticks, files, detector, scenes, audioSegments,
                 keyframeData, sceneIdx, results, prompts, outcome,
                 composition, transcripts,
                 summary, connected,
                 personas, storyInput, sceneData>>

\* the job directory was made: init, then scene detection starts
CreateJob ==
  /\ pc = "mkdir"
  /\ \/ Abort("mkdir", "mkdir")
     \/ /\ trace' = trace \o <<Return("mkdir"),
                               Progress("init", "completed"),
                               Progress("scenes", "started"),
                               Call("detectScenes")>>
        /\ pc' = "scenes"
        /\ UNCHANGED fault
  /\ UNCHANGED <<lastLookup, narrLog, splitVars, extractVars, detectVars,
               queueVars, raceVars>>
  /\ UNCHANGED <<req, ticks, files, detector, scenes, audioSegments,
                 keyframeData, sceneIdx, results, prompts, outcome,
                 composition, transcripts,
                 summary, connected,
                 personas, storyInput, sceneData>>

\* the 'close' and 'error' listeners of the scenedetect process
runSceneDetectCLI_swallow(d) == "resolve"
runSceneDetectCLI(d) ==
  IF ~d.started THEN "reject"
  ELSE IF d.code # 0 THEN "reject"
  ELSE "resolve"

\* what follows a resolved detectScenes up to the next await
AfterDetect_early(tr) ==
  tr \o <<Progress("audio", "started"),
          Call("splitAudioByScenes"),
          Return("detectScenes"),
          Progress("scenes", "completed")>>
AfterDetect(tr) ==
  tr \o <<Return("detectScenes"),
          Progress("scenes", "completed"),
          Progress("audio", "started"),
          Call("splitAudioByScenes")>>

DetectScenesReturn ==
  /\ pc = "scenes"
  /\ \E d \in DetectorOutcomes :
       IF runSceneDetectCLI(d) = "reject"
       THEN /\ detector' = d
            /\ Abort("detectScenes", "detectScenes")
            /\ UNCHANGED scenes
       ELSE \E csv \in SceneListFiles :
                 /\ detector' = [d EXCEPT !.csv = csv]
                 /\ scenes' = Len(parseSceneList(csv))
                 /\ trace' = AfterDetect(trace)
                 /\ pc' = "audio"
                 /\ UNCHANGED fault
  /\ UNCHANGED <<lastLookup, narrLog, splitVars, extractVars, detectVars,
               queueVars, raceVars>>
  /\ UNCHANGED <<req, ticks, files, audioSegments, keyframeData, sceneIdx,
                 results, prompts, outcome,
                 composition, transcripts,
                 summary, connected,
                 personas, storyInput, sceneData>>

\* the scenes whose audio extraction fails, as tried here
AudioFailSets == {{}, {1}}

RECURSIVE Numbers(_, _, _)
\* the scene numbers lo..hi without those in skip, ascending
Numbers(lo, hi, skip) ==
  IF lo > hi THEN <<>>
  ELSE IF lo \in skip THEN Numbers(lo + 1, hi, skip)
  ELSE <<lo>> \o Numbers(lo + 1, hi, skip)

SplitAudioReturn ==
  /\ pc = "audio"
  /\ \/ Abort("splitAudioByScenes", "splitAudioByScenes") /\ UNCHANGED audioSegments
     \/ \E failed \in AudioFailSets :
          /\ audioSegments' =
               LET segments ==
                     splitAudioByScenes(parseSceneList(detector.csv),
                                        failed).results
               IN [i \in DOMAIN segments |-> segments[i].sceneNumber]
          /\ trace' = trace \o <<Return("splitAudioByScenes"),
                                 Progress("audio", "completed"),
                                 Progress("keyframes", "started"),
                                 Call("extractKeyframes")>>
          /\ pc' = "keyframes"
          /\ UNCHANGED fault
  /\ UNCHANGED <<lastLookup, narrLog, splitVars, extractVars, detectVars,
               queueVars, raceVars>>
  /\ UNCHANGED <<req, ticks, files, detector, scenes, keyframeData, sceneIdx,
                 results, prompts, outcome,
                 composition, transcripts,
                 summary, connected,
                 personas, storyInput, sceneData>>

\* keyframes a scene ends up with, as tried here: none or all
FrameCounts == {0, keyframesPerScene}

RECURSIVE Sum(_)
Sum(q) == IF q = <<>> THEN 0 ELSE Head(q) + Sum(Tail(q))

\* the manifest written to result.json
Manifest(n, audio, kf) ==
  [scenesDetected |-> n, audioSegments |-> Len(audio),
   keyframesExtracted |-> Sum(kf)]

\* keyframeData.map((kf, idx) => ({...kf, audioPath:
\* audioSegments[idx]?.audioPath || null})): the clip of a scene is named by
\* the scene it was cut for, 0 is null
MergeAudio(kf, audio) ==
  [idx \in DOMAIN kf |-> IF idx \in DOMAIN audio THEN audio[idx] ELSE 0]

ExtractKeyframesReturn ==
  /\ pc = "keyframes"
  /\ \/ /\ Abort("extractKeyframes", "extractKeyframes")
        /\ UNCHANGED <<keyframeData, sceneData>>
     \/ \E kf \in [1..scenes -> FrameCounts] :
          /\ keyframeData' = kf
          /\ sceneData' = MergeAudio(kf, audioSegments)
          /\ trace' = trace \o <<Return("extractKeyframes"),
                                 Progress("keyframes", "completed"),
                                 Call("writeResult")>>
          /\ pc' = "writeResult"
          /\ UNCHANGED fault
  /\ UNCHANGED <<lastLookup, narrLog, splitVars, extractVars, detectVars,
               queueVars, raceVars>>
  /\ UNCHANGED <<req, ticks, files, detector, scenes, audioSegments, sceneIdx,
                 results, prompts, outcome,
                 composition, transcripts,
                 summary, connected,
                 personas, storyInput>>

\* result.json was written: personas, or straight to the vision stage
WriteResult ==
  /\ pc = "writeResult"
  /\ \/ Abort("writeResult", "writeResult") /\ UNCHANGED files
     \/ /\ files' = Put(files, "result.json",
                        Manifest(scenes, audioSegments, keyframeData))
        /\ UNCHANGED fault
        /\ IF req.personas # NoText
           THEN /\ trace' = trace \o <<Return("writeResult"),
                                       Call("writePersonas")>>
                /\ pc' = "personas"
           ELSE /\ trace' = trace \o <<Return("writeResult"),
                                       Progress("vision", "started"),
                                       Call("processOutputFolder")>>
                /\ pc' = "vision"
  /\ UNCHANGED <<lastLookup, narrLog, splitVars, extractVars, detectVars,
               queueVars, raceVars>>
  /\ UNCHANGED <<req, ticks, detector, scenes, audioSegments, keyframeData,
                 sceneIdx, results, prompts, outcome,
                 composition, transcripts,
                 summary, connected,
                 personas, storyInput, sceneData>>

SavePersonas ==
  /\ pc = "personas"
  /\ \/ Abort("writePersonas", "writePersonas") /\ UNCHANGED files
     \/ /\ files' = Put(files, "personas.txt", req.personas)
        /\ trace' = trace \o <<Return("writePersonas"),
                               Progress("personas", "completed"),
                               Progress("vision", "started"),
                               Call("processOutputFolder")>>
        /\ pc' = "vision"
        /\ UNCHANGED fault
  /\ UNCHANGED <<lastLookup, narrLog, splitVars, extractVars, detectVars,
               queueVars, raceVars>>
  /\ UNCHANGED <<req, ticks, detector, scenes, audioSegments, keyframeData,
                 sceneIdx, results, prompts, outcome,
                 composition, transcripts,
                 summary, connected,
                 personas, storyInput, sceneData>>

\* ================================================== narrative synthesizer
Letters == <<"a", "b", "c", "d", "e", "f">>
\* the storyPart the capability returns for scene k, and its unparseable reply
FragText(k) == <<Letters[k], ".">>
RawText(k) == <<"r", Letters[k]>>
DescText(k) == <<"d", Letters[k]>>

SceneOutcomes == {"fragment", "described", "raw", "error"}

\* the storyPart of the entry pushed last, wherever it sits
previousSceneContext_last(res, sceneNumber) ==
  IF /\ sceneNumber > 1
     /\ res # <<>>
     /\ res[Len(res)].storyPart # NoText
  THEN res[Len(res)].storyPart
  ELSE NoText

\* results[sceneNumber - 2]?.storyPart, the array being 1-based here
previousSceneContext(res, sceneNumber) ==
  IF /\ sceneNumber > 1
     /\ (sceneNumber - 1) \in DOMAIN res
     /\ res[sceneNumber - 1].storyPart # NoText
  THEN res[sceneNumber - 1].storyPart
  ELSE NoText

\* the catch of the scene loop
OnSceneError_drop(res, k) == res
OnSceneError(res, k) ==
  Append(res, [sceneNumber |-> k, storyPart |-> NoText,
               description |-> NoText,
               rawResponse |-> NoText, error |-> TRUE])

\* what processScene returns, pushed with the scene number
OnSceneResult(res, k, o) ==
  IF o = "fragment"
  THEN Append(res, [sceneNumber |-> k, storyPart |-> FragText(k),
                    description |-> DescText(k),
                    rawResponse |-> NoText, error |-> FALSE])
  ELSE IF o = "described"
  THEN Append(res, [sceneNumber |-> k, storyPart |-> NoText,
                    description |-> DescText(k),
                    rawResponse |-> NoText, error |-> FALSE])
  ELSE Append(res, [sceneNumber |-> k, storyPart |-> NoText,
                    description |-> NoText,
                    rawResponse |-> RawText(k), error |-> FALSE])

\* a job without personas.txt gets made-up personas
loadPersonas_generic(f, readable) ==
  IF Exists(f, "personas.txt") /\ readable
  THEN trim(f["personas.txt"])
  ELSE <<"g">>
\* the trimmed content of personas.txt, or null when it cannot be read
loadPersonas(f, readable) ==
  IF Exists(f, "personas.txt") /\ readable
  THEN trim(f["personas.txt"])
  ELSE NoText

\* processOutputFolder up to its scene loop
VisionBegin ==
  /\ pc = "vision"
  /\ \/ /\ Abort("processOutputFolder", "keyframesFolder")
        /\ UNCHANGED <<sceneIdx, personas>>
     \/ /\ \E readable \in (IF Exists(files, "personas.txt")
                            THEN BOOLEAN ELSE {FALSE}) :
             personas' = loadPersonas(files, readable)
        /\ sceneIdx' = 1
        /\ pc' = "visionLoop"
        /\ UNCHANGED <<trace, fault>>
  /\ UNCHANGED <<lastLookup, narrLog, splitVars, extractVars, detectVars,
               queueVars, raceVars>>
  /\ UNCHANGED <<req, ticks, files, detector, scenes, audioSegments,
                 keyframeData, results, prompts, outcome,
                 composition, transcripts,
                 summary, connected,
                 storyInput, sceneData>>

\* imageFiles.length === 0
NoImages_never(n) == FALSE
NoImages(n) == n = 0

\* audioMap.get(sceneNumber) || null is a path
HasAudio(segments, sceneNumber) ==
  \E i \in DOMAIN segments : segments[i] = sceneNumber

\* one iteration of the scene loop
ProcessScene ==
  /\ pc = "visionLoop"
  /\ sceneIdx <= scenes
  /\ LET sceneNumber == sceneIdx
         context == previousSceneContext(results, sceneNumber)
     IN IF NoImages(keyframeData[sceneNumber])
        THEN /\ outcome' = Append(outcome, "noimages")
             /\ UNCHANGED <<results, prompts, transcripts>>
        ELSE \E o \in SceneOutcomes :
               /\ outcome' = Append(outcome, o)
               /\ transcripts' = IF HasAudio(audioSegments, sceneNumber)
                                 THEN Append(transcripts, sceneNumber)
                                 ELSE transcripts
               /\ prompts' = Append(prompts,
                    [sceneNumber |-> sceneNumber,
                     previousSceneContext |-> context,
                     personas |-> personas])
               /\ results' = IF o = "error"
                             THEN OnSceneError(results, sceneNumber)
                             ELSE OnSceneResult(results, sceneNumber, o)
  /\ sceneIdx' = sceneIdx + 1
  /\ UNCHANGED <<lastLookup, narrLog, splitVars, extractVars, detectVars,
               queueVars, raceVars>>
  /\ UNCHANGED <<req, pc, trace, ticks, files, detector, scenes,
                 audioSegments, keyframeData, fault, composition,
                 summary, connected,
                 personas, storyInput, sceneData>>

\* the scene loop is left without saving the results
SaveVisionResults_unsaved ==
  /\ pc = "visionLoop"
  /\ sceneIdx > scenes
  /\ \/ Abort("processOutputFolder", "writeVisionResults") /\ UNCHANGED files
     \/ /\ UNCHANGED files
        /\ pc' = "compose"
        /\ UNCHANGED <<trace, fault>>
  /\ UNCHANGED <<lastLookup, narrLog, splitVars, extractVars, detectVars,
               queueVars, raceVars>>
  /\ UNCHANGED <<req, ticks, detector, scenes, audioSegments, keyframeData,
                 sceneIdx, results, prompts, outcome,
                 composition, transcripts,
                 summary, connected,
                 personas, storyInput, sceneData>>

\* vision_results.json is written after the loop
SaveVisionResults ==
  /\ pc = "visionLoop"
  /\ sceneIdx > scenes
  /\ \/ Abort("processOutputFolder", "writeVisionResults") /\ UNCHANGED files
     \/ /\ files' = Put(files, "vision_results.json", results)
        /\ pc' = "compose"
        /\ UNCHANGED <<trace, fault>>
  /\ UNCHANGED <<lastLookup, narrLog, splitVars, extractVars, detectVars,
               queueVars, raceVars>>
  /\ UNCHANGED <<req, ticks, detector, scenes, audioSegments, keyframeData,
                 sceneIdx, results, prompts, outcome,
                 composition, transcripts,
                 summary, connected,
                 personas, storyInput, sceneData>>

RECURSIVE Join(_, _)
\* Array.prototype.join
Join(parts, sep) ==
  IF parts = <<>> THEN <<>>
  ELSE IF Len(parts) = 1 THEN parts[1]
  ELSE parts[1] \o sep \o Join(Tail(parts), sep)

ParagraphBreak == <<"\n", "\n">>

\* results.filter(r => r.storyPart).map(r => r.storyPart)
StoryParts(res) ==
  LET kept == SelectSeq(res, LAMBDA r : r.storyPart # NoText)
  IN [i \in DOMAIN kept |-> kept[i].storyPart]

\* the fallback of processOutputFolder when generateFinalStory throws
FallbackStory_unjoined(res) == Join(StoryParts(res), <<>>)
FallbackStory(res) == Join(StoryParts(res), ParagraphBreak)

\* every entry of the results is handed to the composition call
sceneDescriptions_all(res) ==
  [i \in DOMAIN res |->
     [sceneNumber |-> res[i].sceneNumber,
      text |-> IF res[i].storyPart # NoText THEN res[i].storyPart
               ELSE res[i].description]]
\* results.filter(r => r.storyPart || r.description), each labelled with
\* its scene number and carrying r.storyPart || r.description
sceneDescriptions(res) ==
  LET kept == SelectSeq(res, LAMBDA r : r.storyPart # NoText
                                         \/ r.description # NoText)
  IN [i \in DOMAIN kept |->
        [sceneNumber |-> kept[i].sceneNumber,
         text |-> IF kept[i].storyPart # NoText THEN kept[i].storyPart
                  ELSE kept[i].description]]

\* what the composition call may answer
ComposedStories == {NoText, <<"s", ".">>}

\* generateFinalStory, story.txt, and the handler up to its next await
Compose ==
  /\ pc = "compose"
  /\ \E composed \in BOOLEAN :
       /\ composition' = IF composed THEN "composed" ELSE "failed"
       /\ storyInput' = [called |-> TRUE,
                         scenes |-> sceneDescriptions(results),
                         personas |-> personas]
       /\ \/ Abort("processOutputFolder", "writeStory") /\ UNCHANGED files
          \/ \E finalStory \in (IF composed THEN ComposedStories
                                ELSE {FallbackStory(results)}) :
               /\ files' = Put(files, "story.txt", finalStory)
               /\ trace' = trace \o <<Return("processOutputFolder"),
                                      Progress("vision", "completed"),
                                      Progress("story", "started"),
                                      Call("readStory")>>
               /\ pc' = "readStory"
               /\ UNCHANGED fault
  /\ UNCHANGED <<lastLookup, narrLog, splitVars, extractVars, detectVars,
               queueVars, raceVars>>
  /\ UNCHANGED <<req, ticks, detector, scenes, audioSegments, keyframeData,
                 sceneIdx, results, prompts, outcome, transcripts,
                 summary, connected,
                 personas, sceneData>>

\* story.txt was read (or not): the stream is closed with 'complete'
ReadStory ==
  /\ pc = "readStory"
  /\ trace' = trace \o <<Return("readStory"),
                         Progress("story", "completed"),
                         Terminal("complete")>>
  /\ summary' = Manifest(scenes, audioSegments, keyframeData)
  /\ pc' = "done"
  /\ UNCHANGED <<lastLookup, narrLog, splitVars, extractVars, detectVars,
               queueVars, raceVars>>
  /\ UNCHANGED <<req, ticks, files, detector, scenes, audioSegments,
                 keyframeData, sceneIdx, results, prompts, outcome, fault,
                 composition, transcripts,
                 connected, personas, storyInput, sceneData>>

\* ================================================================== lookups
NoLookup == [kind |-> "none", status |-> 0, completed |-> FALSE]
\* the run of the job reached its 'complete' event
RunCompleted == pc = "done" /\ fault = "none"

\* GET /api/job/:jobId
JobLookup ==
  /\ lastLookup' = [kind |-> "job",
                    status |-> IF Exists(files, "result.json") THEN 200 ELSE 404,
                    completed |-> RunCompleted]
  /\ UNCHANGED <<jobVars, narrLog, splitVars, extractVars, detectVars,
               queueVars, raceVars>>

\* GET /api/job/:jobId/story
StoryLookup ==
  /\ lastLookup' = [kind |-> "story",
                    status |-> IF Exists(files, "story.txt") THEN 200 ELSE 404,
                    completed |-> RunCompleted]
  /\ UNCHANGED <<jobVars, narrLog, splitVars, extractVars, detectVars,
               queueVars, raceVars>>

\* ============================================================ specification
NoAudioRun ==
  [state |-> "idle", failed |-> {}, attempts |-> <<>>, results |-> <<>>,
   written |-> FALSE, manifest |-> <<>>]
NoKeyframeRun ==
  [state |-> "idle", count |-> keyframesPerScene, failed |-> <<>>,
   sampled |-> <<>>, finished |-> <<>>, results |-> <<>>, written |-> FALSE,
   manifest |-> <<>>]

NoDetectRun == [state |-> "idle", detector |-> NotRun, scenes |-> <<>>]

\* detectScenes is not exercised on its own
DetectIdle ==
  /\ sceneListFile = NoCsv
  /\ detectRun = NoDetectRun

\* no run of processVideo, the queue publisher as loaded
QueueIdle ==
  /\ connection = 0
  /\ sceneQueue = 0
  /\ handles = <<>>
  /\ runs = <<>>

\* no narration requests under way at once
RaceIdle == calls = <<>>

\* no extractor is exercised on its own
ExtractIdle ==
  /\ sceneList = <<>>
  /\ audioRun = NoAudioRun
  /\ keyframeRun = NoKeyframeRun

SplitIdle ==
  /\ text = NoText
  /\ maxLen = 1
  /\ chunks = <<>>
  /\ splitDone = FALSE

Next ==
  \/ Begin
  \/ DownloadProgress
  \/ DownloadReturn
  \/ ProbeReturn
  \/ CreateJob
  \/ DetectScenesReturn
  \/ SplitAudioReturn
  \/ ExtractKeyframesReturn
  \/ WriteResult
  \/ SavePersonas
  \/ VisionBegin
  \/ ProcessScene
  \/ SaveVisionResults
  \/ Compose
  \/ ReadStory
  \/ JobLookup
  \/ StoryLookup

Init ==
  /\ req \in {r \in Requests : RelevantRequest(r)}
  /\ pc = "start"
  /\ JobBlank
  /\ files = NoFiles
  /\ lastLookup = NoLookup
  /\ narrLog = <<>>
  /\ SplitIdle
  /\ ExtractIdle
  /\ DetectIdle
  /\ QueueIdle
  /\ RaceIdle

Spec == Init /\ [][Next]_vars

\* ------------------------------------------- the listener and the handler
\* the handler stops when the listener goes away
Disconnect_cancel ==
  /\ connected
  /\ pc \notin {"start", "done"}
  /\ connected' = FALSE
  /\ pc' = "cancelled"
  /\ UNCHANGED <<req, trace, ticks, files, detector, scenes, audioSegments,
                 keyframeData, sceneIdx, results, prompts, outcome, fault,
                 composition, transcripts, summary,
                 personas, storyInput, sceneData>>
  /\ UNCHANGED <<lastLookup, narrLog, splitVars, extractVars, detectVars,
                 queueVars, raceVars>>

\* The listener closes the stream while the handler is at an await.  The
\* handler registers no 'close' listener and sendSSE writes without looking
\* at the connection; a write to a closed response is dropped.
Disconnect ==
  /\ connected
  /\ pc \notin {"start", "done"}
  /\ connected' = FALSE
  /\ UNCHANGED <<req, pc, trace, ticks, files, detector, scenes,
                 audioSegments, keyframeData, sceneIdx, results, prompts,
                 outcome, fault, composition, transcripts, summary,
                 personas, storyInput, sceneData>>
  /\ UNCHANGED <<lastLookup, narrLog, splitVars, extractVars, detectVars,
                 queueVars, raceVars>>

\* the steps of the upload handler: the continuation after each await
HandlerStep ==
  \/ Begin
  \/ DownloadProgress
  \/ DownloadReturn
  \/ ProbeReturn
  \/ CreateJob
  \/ DetectScenesReturn
  \/ SplitAudioReturn
  \/ ExtractKeyframesReturn
  \/ WriteResult
  \/ SavePersonas
  \/ VisionBegin
  \/ ProcessScene
  \/ SaveVisionResults
  \/ Compose
  \/ ReadStory

LiveNext ==
  \/ Begin
  \/ DownloadProgress
  \/ DownloadReturn
  \/ ProbeReturn
  \/ CreateJob
  \/ DetectScenesReturn
  \/ SplitAudioReturn
  \/ ExtractKeyframesReturn
  \/ WriteResult
  \/ SavePersonas
  \/ VisionBegin
  \/ ProcessScene
  \/ SaveVisionResults
  \/ Compose
  \/ ReadStory
  \/ Disconnect

\* every awaited call returns or fails: a continuation that can run does run
LiveSpec == Init /\ [][LiveNext]_vars /\ WF_vars(HandlerStep)

\* ======================================================= chunker on its own
NoRequest ==
  [resourceType |-> "video", youtubeUrl |-> "none", file |-> FALSE,
   personas |-> NoText]

\* no request is being served
ServerIdle ==
  /\ req = NoRequest
  /\ pc = "idle"
  /\ JobBlank
  /\ lastLookup = NoLookup
  /\ narrLog = <<>>

SplitInit ==
  /\ text \in Texts
  /\ maxLen \in 1..MaxBudget
  /\ chunks = <<>>
  /\ splitDone = FALSE
  /\ ServerIdle
  /\ files = NoFiles
  /\ ExtractIdle
  /\ DetectIdle
  /\ QueueIdle
  /\ RaceIdle

Split ==
  /\ ~splitDone
  /\ chunks' = splitTextBySentence(text, maxLen)
  /\ splitDone' = TRUE
  /\ UNCHANGED <<text, maxLen>>
  /\ UNCHANGED <<jobVars, lastLookup, narrLog, extractVars, detectVars,
               queueVars, raceVars>>

SplitNext == Split

SplitSpec == SplitInit /\ [][SplitNext]_vars

\* ==================================================== extractors on their own
MaxBatch == 2
\* the scene durations tried, in milliseconds
SceneDurations == {-1, 0, 1, 4}

SceneLists ==
  {ScenesFrom(ds, 1, 0) :
     ds \in UNION {[1..n -> SceneDurations] : n \in 0..MaxBatch}}

ExtractInit ==
  /\ sceneList \in SceneLists
  /\ audioRun = NoAudioRun
  /\ keyframeRun \in {[NoKeyframeRun EXCEPT !.count = c] :
                        c \in 1..keyframesPerScene}
  /\ ServerIdle
  /\ files = NoFiles
  /\ SplitIdle
  /\ DetectIdle
  /\ QueueIdle
  /\ RaceIdle

\* one call of splitAudioByScenes: the loop, then the manifest
SplitAudio ==
  /\ audioRun.state = "idle"
  /\ keyframeRun.state = "idle"
  /\ \E failed \in SUBSET (1..Len(sceneList)), written \in BOOLEAN :
       LET run == splitAudioByScenes(sceneList, failed)
       IN audioRun' =
            [state |-> IF written THEN "returned" ELSE "threw",
             failed |-> failed,
             attempts |-> run.attempts,
             results |-> run.results,
             written |-> written,
             manifest |-> IF written THEN run.results ELSE <<>>]
  /\ UNCHANGED <<sceneList, keyframeRun>>
  /\ UNCHANGED <<jobVars, lastLookup, narrLog, splitVars, detectVars,
               queueVars, raceVars>>

\* one iteration of the scene loop of extractKeyframes
ExtractScene ==
  /\ audioRun.state = "idle"
  /\ keyframeRun.state \in {"idle", "running"}
  /\ Len(keyframeRun.results) < Len(sceneList)
  /\ LET scene == sceneList[Len(keyframeRun.results) + 1]
         count == keyframeRun.count
     IN \E failedFrames \in SUBSET (1..count), order \in Orders(count) :
          IF failedFrames # {} /\ OnFrameError = "reject"
          THEN keyframeRun' =
                 [keyframeRun EXCEPT !.state = "threw",
                                     !.failed = Append(@, failedFrames)]
          ELSE keyframeRun' =
                 [keyframeRun EXCEPT
                    !.state = "running",
                    !.failed = Append(@, failedFrames),
                    !.sampled = Append(@, timestamps(scene, count)),
                    !.finished = Append(@, Ended(failedFrames, order)),
                    !.results = Append(@,
                       [sceneNumber |-> scene.sceneNumber,
                        startTime |-> scene.startTime,
                        endTime |-> scene.endTime,
                        keyframes |-> extractSceneKeyframes(
                                        scene, count, failedFrames, order)])]
  /\ UNCHANGED <<sceneList, audioRun>>
  /\ UNCHANGED <<jobVars, lastLookup, narrLog, splitVars, detectVars,
               queueVars, raceVars>>

\* the keyframe manifest is written after the loop
SaveKeyframes ==
  /\ audioRun.state = "idle"
  /\ keyframeRun.state \in {"idle", "running"}
  /\ Len(keyframeRun.results) = Len(sceneList)
  /\ \E written \in BOOLEAN :
       keyframeRun' =
         [keyframeRun EXCEPT
            !.state = IF written THEN "returned" ELSE "threw",
            !.written = written,
            !.manifest = IF written THEN keyframeRun.results ELSE <<>>]
  /\ UNCHANGED <<sceneList, audioRun>>
  /\ UNCHANGED <<jobVars, lastLookup, narrLog, splitVars, detectVars,
               queueVars, raceVars>>

ExtractNext ==
  \/ SplitAudio
  \/ ExtractScene
  \/ SaveKeyframes

ExtractSpec == ExtractInit /\ [][ExtractNext]_vars

\* ================================================= detectScenes on its own
DetectInit ==
  /\ sceneListFile \in AnySceneListFiles
  /\ detectRun = NoDetectRun
  /\ ServerIdle
  /\ files = NoFiles
  /\ SplitIdle
  /\ ExtractIdle
  /\ QueueIdle
  /\ RaceIdle

\* one call of detectScenes: the detector, the parser, then scenes.json
DetectScenes ==
  /\ detectRun.state = "idle"
  /\ \E d \in DetectorOutcomes, written \in BOOLEAN :
       detectRun' =
         IF runSceneDetectCLI(d) = "reject"
         THEN [state |-> "rejected", detector |-> d, scenes |-> <<>>]
         ELSE IF ~written
         THEN [state |-> "rejected", detector |-> d, scenes |-> <<>>]
         ELSE [state |-> "resolved", detector |-> d,
               scenes |-> parseSceneList(sceneListFile)]
  /\ UNCHANGED sceneListFile
  /\ UNCHANGED <<jobVars, lastLookup, narrLog, splitVars, extractVars,
                 queueVars, raceVars>>

DetectNext == DetectScenes

DetectSpec == DetectInit /\ [][DetectNext]_vars

\* ============================================== processVideo and the queue
\* The runs of processVideo that may be under way at once.  connection and
\* sceneQueue are the two variables of the queuePublisher module, shared by
\* all runs: 0 is null, h > 0 is the h-th Redis client created (handles[h]),
\* and the queue built on it.
MaxRuns == 2

\* the scene count of a run, as tried here
SceneCounts == {2}

NoRun ==
  [pc |-> "idle", n |-> 0, own |-> 0, used |-> 0, target |-> 0,
   stale |-> FALSE, publish |-> "none", bulk |-> "none", jobs |-> <<>>, queued |-> <<>>, logged |-> <<>>,
   extracted |-> FALSE, written |-> FALSE, threw |-> FALSE,
   outcome |-> "pending"]

\* sceneData.map(...): one descriptor per scene, in the order of sceneData
Descriptors(jobId, n) == [k \in 1..n |-> [jobId |-> jobId, sceneNumber |-> k]]

\* the catch around addBulk lets the error through
OnPublishError_rethrow(run, jobs) ==
  [run EXCEPT !.publish = "threw", !.bulk = "failed", !.threw = TRUE]
\* the catch around addBulk: the jobs are logged and returned
OnPublishError(run, jobs) ==
  [run EXCEPT !.publish = "returned", !.bulk = "failed", !.jobs = jobs,
              !.logged = jobs]

\* the outcome of processVideo once closeQueue has settled
Settle(run, closed) ==
  [run EXCEPT !.pc = "done",
              !.outcome = IF closed /\ ~run.threw THEN "resolved"
                          ELSE "rejected"]

\* closeQueue from its second test on: connection.quit() or nothing
CloseConnection(run) ==
  IF connection # 0
  THEN [run EXCEPT !.pc = "quitting", !.target = connection,
                   !.stale = handles[connection].quitBy # {}]
  ELSE Settle(run, TRUE)

\* closeQueue from its entry: sceneQueue.close(), or the second test
CloseQueueEntry(run) ==
  IF sceneQueue # 0
  THEN [run EXCEPT !.pc = "closingQueue", !.target = sceneQueue]
  ELSE CloseConnection(run)

\* the handle a run just asked to close, marked as such
MarkClosing(hs, run, r) ==
  IF run.pc = "closingQueue"
  THEN [hs EXCEPT ![run.target].queueClosedBy = @ \cup {r}]
  ELSE IF run.pc = "quitting"
  THEN [hs EXCEPT ![run.target].quitBy = @ \cup {r}]
  ELSE hs

QueueInit ==
  /\ connection = 0
  /\ sceneQueue = 0
  /\ handles = <<>>
  /\ runs = [r \in 1..MaxRuns |-> NoRun]
  /\ RaceIdle
  /\ ServerIdle
  /\ files = NoFiles
  /\ SplitIdle
  /\ ExtractIdle
  /\ DetectIdle

\* processVideo is called: up to the first await
StartRun ==
  /\ \E r \in DOMAIN runs, n \in SceneCounts :
       /\ runs[r].pc = "idle"
       /\ runs' = [runs EXCEPT ![r].pc = "extract", ![r].n = n]
  /\ UNCHANGED <<connection, sceneQueue, handles>>
  /\ UNCHANGED <<jobVars, lastLookup, narrLog, splitVars, extractVars,
                 detectVars, raceVars>>

\* fs.access ... extractKeyframes have settled.  When one of them threw the
\* run goes through catch and finally into closeQueue; otherwise initQueue
\* runs (it has no await of its own): new Redis or new Queue may throw, and
\* what was assigned before the throw stays assigned.
ExtractReturn ==
  /\ \E r \in DOMAIN runs :
       /\ runs[r].pc = "extract"
       /\ \/ LET run == CloseQueueEntry([runs[r] EXCEPT !.threw = TRUE])
             IN /\ runs' = [runs EXCEPT ![r] = run]
                /\ handles' = MarkClosing(handles, run, r)
                /\ UNCHANGED <<connection, sceneQueue>>
          \/ /\ runs' = [runs EXCEPT ![r].pc = "initDone",
                                     ![r].extracted = TRUE]
             /\ UNCHANGED <<connection, sceneQueue, handles>>
          \/ LET h == Len(handles) + 1
             IN /\ handles' = Append(handles,
                    [openedBy |-> r, queueClosedBy |-> {}, quitBy |-> {}])
                /\ connection' = h
                /\ runs' = [runs EXCEPT ![r].pc = "initDone",
                                        ![r].extracted = TRUE,
                                        ![r].own = h]
                /\ \/ sceneQueue' = h
                   \/ UNCHANGED sceneQueue
  /\ UNCHANGED <<jobVars, lastLookup, narrLog, splitVars, extractVars,
                 detectVars, raceVars>>

\* publishSceneJobs up to its await: the jobs are built, then addBulk is
\* called on the queue the module holds now, or the jobs are logged
PublishBegin ==
  /\ \E r \in DOMAIN runs :
       /\ runs[r].pc = "initDone"
       /\ LET jobs == Descriptors(r, runs[r].n)
          IN IF sceneQueue # 0
             THEN runs' = [runs EXCEPT ![r].pc = "addBulk",
                                       ![r].publish = "pending",
                                       ![r].used = sceneQueue]
             ELSE runs' = [runs EXCEPT ![r].pc = "published",
                                       ![r].publish = "returned",
                                       ![r].jobs = jobs,
                                       ![r].logged = jobs]
  /\ UNCHANGED <<connection, sceneQueue, handles>>
  /\ UNCHANGED <<jobVars, lastLookup, narrLog, splitVars, extractVars,
                 detectVars, raceVars>>

\* addBulk has settled
AddBulkReturn ==
  /\ \E r \in DOMAIN runs :
       /\ runs[r].pc = "addBulk"
       /\ LET jobs == Descriptors(r, runs[r].n)
          IN \/ runs' = [runs EXCEPT ![r].pc = "published",
                                     ![r].publish = "returned",
                                     ![r].bulk = "ok",
                                     ![r].jobs = jobs,
                                     ![r].queued = jobs]
             \/ LET run == OnPublishError(runs[r], jobs)
                IN IF run.threw
                   THEN runs' = [runs EXCEPT ![r] = [run EXCEPT !.pc = "thrown"]]
                   ELSE runs' = [runs EXCEPT ![r] =
                                   [run EXCEPT !.pc = "published"]]
  /\ UNCHANGED <<connection, sceneQueue, handles>>
  /\ UNCHANGED <<jobVars, lastLookup, narrLog, splitVars, extractVars,
                 detectVars, raceVars>>

\* the write of result.json has settled (or the try block was left by a
\* throw): finally calls closeQueue, which reads the module's variables now
WriteResultReturn ==
  /\ \E r \in DOMAIN runs :
       /\ runs[r].pc \in {"published", "thrown"}
       /\ \E ok \in BOOLEAN :
            /\ runs[r].pc = "thrown" => ~ok
            /\ LET run == CloseQueueEntry(
                            [runs[r] EXCEPT !.written = ok,
                                            !.threw = runs[r].threw \/ ~ok])
               IN /\ runs' = [runs EXCEPT ![r] = run]
                  /\ handles' = MarkClosing(handles, run, r)
  /\ UNCHANGED <<connection, sceneQueue>>
  /\ UNCHANGED <<jobVars, lastLookup, narrLog, splitVars, extractVars,
                 detectVars, raceVars>>

\* sceneQueue.close() has settled: a rejection leaves closeQueue, and with
\* it processVideo, rejected
QueueCloseReturn ==
  /\ \E r \in DOMAIN runs :
       /\ runs[r].pc = "closingQueue"
       /\ \/ LET run == CloseConnection(runs[r])
             IN /\ runs' = [runs EXCEPT ![r] = run]
                /\ handles' = MarkClosing(handles, run, r)
          \/ /\ runs' = [runs EXCEPT ![r] = Settle(runs[r], FALSE)]
             /\ UNCHANGED handles
  /\ UNCHANGED <<connection, sceneQueue>>
  /\ UNCHANGED <<jobVars, lastLookup, narrLog, splitVars, extractVars,
                 detectVars, raceVars>>

\* connection.quit() has settled.  On a client that was quit before the
\* call, the command is refused (Connection is closed).
QuitReturn ==
  /\ \E r \in DOMAIN runs :
       /\ runs[r].pc = "quitting"
       /\ \/ /\ ~runs[r].stale
             /\ runs' = [runs EXCEPT ![r] = Settle(runs[r], TRUE)]
          \/ runs' = [runs EXCEPT ![r] = Settle(runs[r], FALSE)]
  /\ UNCHANGED <<connection, sceneQueue, handles>>
  /\ UNCHANGED <<jobVars, lastLookup, narrLog, splitVars, extractVars,
                 detectVars, raceVars>>

QueueNext ==
  \/ StartRun
  \/ ExtractReturn
  \/ PublishBegin
  \/ AddBulkReturn
  \/ WriteResultReturn
  \/ QueueCloseReturn
  \/ QuitReturn

QueueSpec == QueueInit /\ [][QueueNext]_vars

\* ======================================================= narration endpoints
MaxTakes == 2
\* the loop bound of the chunk loop
SynthesisLoopBound == 1

\* what the speech capability returns for an input: one of several renderings
Speech(input, take) == [input |-> input, take |-> take]

\* every endpoint keeps its audio under the one name
audioOutputPath_shared(ep) == "narration.mp3"
\* path.join(jobDir, ...): the file an endpoint keeps its audio in
audioOutputPath(ep) ==
  IF ep = "narration" THEN "narration.mp3" ELSE "narration_final.mp3"

\* fs.access(audioOutputPath) succeeds
CacheHit_never(f, name) == FALSE
CacheHit(f, name) == Exists(f, name)

\* results.sort((a, b) => a.sceneNumber - b.sceneNumber)
SortBySceneNumber(res) ==
  [i \in DOMAIN res |->
     CHOOSE r \in {res[j] : j \in DOMAIN res} :
       Cardinality({j \in DOMAIN res : res[j].sceneNumber <= r.sceneNumber}) = i]

\* the storyParts of the chunk path
NarrationParts(res) == StoryParts(SortBySceneNumber(
                         SelectSeq(res, LAMBDA r : r.storyPart # NoText)))

\* the text chunks of the chunk path for an analysis file
TextChunks(res) ==
  splitTextBySentence(Join(NarrationParts(res), ParagraphBreak), chunkSize)

Respond(ep, status, body, tts, cached) ==
  narrLog' = Append(narrLog, [ep |-> ep, status |-> status, body |-> body,
                              tts |-> tts, cached |-> cached])

\* GET /api/job/:folderId/narration
Narration ==
  /\ Len(narrLog) < MaxNarrationRequests
  /\ IF CacheHit(files, audioOutputPath("narration"))
     THEN /\ Respond("narration", 200, files[audioOutputPath("narration")], 0, TRUE)
          /\ UNCHANGED files
     ELSE IF ~Exists(files, "vision_results.json")
     THEN /\ Respond("narration", 500, <<>>, 0, FALSE)
          /\ UNCHANGED files
     ELSE IF NarrationParts(files["vision_results.json"]) = <<>>
     THEN /\ Respond("narration", 404, <<>>, 0, FALSE)
          /\ UNCHANGED files
     ELSE LET textChunks == TextChunks(files["vision_results.json"])
          IN IF Len(textChunks) < SynthesisLoopBound
             THEN /\ Respond("narration", 500, <<>>, Len(textChunks), FALSE)
                  /\ UNCHANGED files
             ELSE \/ \E failAt \in 1..SynthesisLoopBound :
                       /\ Respond("narration", 500, <<>>, failAt, FALSE)
                       /\ UNCHANGED files
                  \/ \E takes \in [1..SynthesisLoopBound -> 1..MaxTakes] :
                       LET narrationBuffer ==
                             [i \in 1..SynthesisLoopBound |->
                                Speech(textChunks[i], takes[i])]
                       IN /\ files' = Put(files, audioOutputPath("narration"),
                                          narrationBuffer)
                          /\ Respond("narration", 200, narrationBuffer,
                                     SynthesisLoopBound, FALSE)
  /\ UNCHANGED <<req, pc, trace, ticks, detector, scenes, audioSegments,
                 keyframeData, sceneIdx, results, prompts, outcome, fault,
                 composition, transcripts,
                 summary, connected,
                 personas, storyInput, sceneData>>
  /\ UNCHANGED <<lastLookup, splitVars, extractVars, detectVars,
               queueVars, raceVars>>

\* GET /api/job/:folderId/narration/final
NarrationFinal ==
  /\ Len(narrLog) < MaxNarrationRequests
  /\ IF CacheHit(files, audioOutputPath("final"))
     THEN /\ Respond("final", 200, files[audioOutputPath("final")], 0, TRUE)
          /\ UNCHANGED files
     ELSE IF ~Exists(files, "story.txt")
     THEN /\ Respond("final", 500, <<>>, 0, FALSE)
          /\ UNCHANGED files
     ELSE IF trim(files["story.txt"]) = <<>>
     THEN /\ Respond("final", 404, <<>>, 0, FALSE)
          /\ UNCHANGED files
     ELSE \/ /\ Respond("final", 500, <<>>, 1, FALSE)
             /\ UNCHANGED files
          \/ \E take \in 1..MaxTakes :
               LET buffer == <<Speech(files["story.txt"], take)>>
               IN /\ files' = Put(files, audioOutputPath("final"), buffer)
                  /\ Respond("final", 200, buffer, 1, FALSE)
  /\ UNCHANGED <<req, pc, trace, ticks, detector, scenes, audioSegments,
                 keyframeData, sceneIdx, results, prompts, outcome, fault,
                 composition, transcripts,
                 summary, connected,
                 personas, storyInput, sceneData>>
  /\ UNCHANGED <<lastLookup, splitVars, extractVars, detectVars,
               queueVars, raceVars>>

RECURSIVE RunScenes(_, _, _)
\* the results array the scene loop leaves for the outcomes os
RunScenes(os, k, res) ==
  IF k > Len(os) THEN res
  ELSE RunScenes(os, k + 1,
         IF os[k] = "noimages" THEN res
         ELSE IF os[k] = "error" THEN OnSceneError(res, k)
         ELSE OnSceneResult(res, k, os[k]))

OutcomeLists ==
  UNION {[1..n -> SceneOutcomes \cup {"noimages"}] : n \in 0..MaxScenes}

\* the job directory after the upload handler wrote result.json
DirAfterExtraction(os) ==
  Put(NoFiles, "result.json",
      Manifest(Len(os), Numbers(1, Len(os), {}),
               [i \in DOMAIN os |->
                  IF os[i] = "noimages" THEN 0 ELSE keyframesPerScene]))

\* the job directories a run of the upload handler can leave behind: none,
\* one that stopped before story.txt, and complete ones
JobDirs ==
  {NoFiles}
  \cup {Put(DirAfterExtraction(os), "vision_results.json",
            RunScenes(os, 1, <<>>)) : os \in OutcomeLists}
  \cup UNION {
         {Put(Put(DirAfterExtraction(os), "vision_results.json",
                  RunScenes(os, 1, <<>>)), "story.txt", st) :
            st \in ComposedStories \cup {FallbackStory(RunScenes(os, 1, <<>>))}} :
         os \in OutcomeLists}

NarrInit ==
  /\ ServerIdle
  /\ files \in JobDirs
  /\ SplitIdle
  /\ ExtractIdle
  /\ DetectIdle
  /\ QueueIdle
  /\ RaceIdle

NarrNext ==
  \/ Narration
  \/ NarrationFinal

NarrSpec == NarrInit /\ [][NarrNext]_vars

\* ================================== narration requests under way at once
\* Each request is one run of a handler above, taken apart at its awaits:
\* fs.access, fs.readFile, the speech call, fs.writeFile.
MaxCalls == 2

\* the job directories tried: those of the jobs of at most one scene
RaceDirs ==
  {d \in JobDirs :
     Exists(d, "vision_results.json") => Len(d["vision_results.json"]) <= 1}

\* resultsPath of the chunk path, storyPath of the whole-story path
SourcePath(ep) ==
  IF ep = "narration" THEN "vision_results.json" ELSE "story.txt"

\* the calls that have not responded yet
InFlight == {d \in DOMAIN calls : calls[d].pc # "done"}

\* res.send / res.status(..).json: the response of call c
Finish(c, status, body, cached) ==
  calls' = [calls EXCEPT ![c] = [@ EXCEPT !.pc = "done",
                                          !.status = status,
                                          !.audio = body,
                                          !.cached = cached]]

\* the speech capability is called with the input
Synthesize(c, input) ==
  calls' = [calls EXCEPT ![c] = [@ EXCEPT !.pc = "synth",
                                          !.input = input,
                                          !.tts = @ + 1]]

RaceInit ==
  /\ ServerIdle
  /\ files \in RaceDirs
  /\ SplitIdle
  /\ ExtractIdle
  /\ DetectIdle
  /\ QueueIdle
  /\ RaceIdle

\* a request arrives: the handler runs up to await fs.access(audioOutputPath)
RaceBegin ==
  /\ Len(calls) < MaxCalls
  /\ \E ep \in {"narration", "final"} :
       calls' = Append(calls,
                  [ep |-> ep, pc |-> "access", with |-> InFlight,
                   input |-> NoText, audio |-> <<>>, status |-> 0,
                   tts |-> 0, cached |-> FALSE])
  /\ UNCHANGED <<jobVars, lastLookup, narrLog, splitVars, extractVars,
                 detectVars, queueVars>>

\* fs.access settled: read the cached file, or read the source of the text
AccessReturn ==
  /\ \E c \in DOMAIN calls :
       /\ calls[c].pc = "access"
       /\ calls' = [calls EXCEPT ![c].pc =
                      IF CacheHit(files, audioOutputPath(calls[c].ep))
                      THEN "readCache" ELSE "readSource"]
  /\ UNCHANGED <<jobVars, lastLookup, narrLog, splitVars, extractVars,
                 detectVars, queueVars>>

\* the cached file was read: it is the response
ReadCacheReturn ==
  /\ \E c \in DOMAIN calls :
       /\ calls[c].pc = "readCache"
       /\ Finish(c, 200, files[audioOutputPath(calls[c].ep)], TRUE)
  /\ UNCHANGED <<jobVars, lastLookup, narrLog, splitVars, extractVars,
                 detectVars, queueVars>>

\* vision_results.json or story.txt was read (or not): up to the speech call
ReadSourceReturn ==
  /\ \E c \in DOMAIN calls :
       /\ calls[c].pc = "readSource"
       /\ IF ~Exists(files, SourcePath(calls[c].ep))
          THEN Finish(c, 500, <<>>, FALSE)
          ELSE IF calls[c].ep = "narration"
          THEN IF NarrationParts(files["vision_results.json"]) = <<>>
               THEN Finish(c, 404, <<>>, FALSE)
               ELSE LET textChunks == TextChunks(files["vision_results.json"])
                    IN IF Len(textChunks) < SynthesisLoopBound
                       THEN Finish(c, 500, <<>>, FALSE)
                       ELSE Synthesize(c, textChunks[1])
          ELSE IF trim(files["story.txt"]) = <<>>
               THEN Finish(c, 404, <<>>, FALSE)
               ELSE Synthesize(c, files["story.txt"])
  /\ UNCHANGED <<jobVars, lastLookup, narrLog, splitVars, extractVars,
                 detectVars, queueVars>>

\* the speech call settled: the catch answers 500, or the buffer is handed
\* to fs.writeFile
SynthReturn ==
  /\ \E c \in DOMAIN calls :
       /\ calls[c].pc = "synth"
       /\ \/ Finish(c, 500, <<>>, FALSE)
          \/ \E take \in 1..MaxTakes :
               calls' = [calls EXCEPT ![c] =
                           [@ EXCEPT !.pc = "write",
                                     !.audio = <<Speech(calls[c].input, take)>>]]
  /\ UNCHANGED <<jobVars, lastLookup, narrLog, splitVars, extractVars,
                 detectVars, queueVars>>

\* fs.writeFile settled: the buffer is stored and sent, or the catch answers
WriteReturn ==
  /\ \E c \in DOMAIN calls :
       /\ calls[c].pc = "write"
       /\ \/ /\ files' = Put(files, audioOutputPath(calls[c].ep),
                             calls[c].audio)
             /\ Finish(c, 200, calls[c].audio, FALSE)
          \/ /\ Finish(c, 500, <<>>, FALSE)
             /\ UNCHANGED files
  /\ UNCHANGED <<req, pc, trace, ticks, detector, scenes, audioSegments,
                 keyframeData, sceneIdx, results, prompts, outcome, fault,
                 composition, transcripts,
                 summary, connected,
                 personas, storyInput, sceneData>>
  /\ UNCHANGED <<lastLookup, narrLog, splitVars, extractVars, detectVars,
                 queueVars>>

RaceNext ==
  \/ RaceBegin
  \/ AccessReturn
  \/ ReadCacheReturn
  \/ ReadSourceReturn
  \/ SynthReturn
  \/ WriteReturn

RaceSpec == RaceInit /\ [][RaceNext]_vars

\* ------------------------------------------------- properties of the chunker
\* a text with its white space removed
strip(s) == SelectSeq(s, LAMBDA c : c \notin WhiteSpace)

RECURSIVE Flatten(_)
Flatten(ss) == IF ss = <<>> THEN <<>> ELSE Head(ss) \o Flatten(Tail(ss))

\* the positions of the input that hold a character other than white space
NonBlank(t) == {i \in 1..Len(t) : t[i] \notin WhiteSpace}
\* the k-th of them
Kth(S, k) == CHOOSE i \in S : Cardinality({j \in S : j <= i}) = k

\* the number of non-blank characters in the first k chunks
StrippedLen(chs, k) == Len(strip(Flatten(SubSeq(chs, 1, k))))

RECURSIVE EndsSentence(_, _)
\* position p of the input ends a sentence: a terminator, or a closer that
\* follows the end of a sentence
EndsSentence(t, p) ==
  \/ t[p] \in Terminators
  \/ t[p] \in Closers /\ p > 1 /\ EndsSentence(t, p - 1)

\* The boundary after chunk k falls, in the input, right after the end of a
\* sentence or on a line break (a boundary before the first or after the last
\* non-blank character cuts nothing).
BoundaryAtSentenceEnd(k) ==
  LET off == StrippedLen(chunks, k)
      nb  == NonBlank(text)
  IN \/ off = 0
     \/ off >= Cardinality(nb)
     \/ LET p == Kth(nb, off)
            q == Kth(nb, off + 1)
        IN \/ EndsSentence(text, p)
           \/ \E i \in (p + 1)..(q - 1) : text[i] \in LineTerminators

ChunkIsOneSentence(i) ==
  \E j \in DOMAIN sentences(text) : chunks[i] = trim(sentences(text)[j])

TrailingText(t) ==
  LET terms == {i \in 1..Len(t) : t[i] \in Terminators}
      last  == IF terms = {} THEN 0 ELSE Max(terms)
      from  == NextNotIn(t, last + 1, Closers)
  IN SubSeq(t, from, Len(t))

IsSuffix(s, t) == Len(s) <= Len(t) /\ SubSeq(t, Len(t) - Len(s) + 1, Len(t)) = s

\* the chunks, joined and compared without white space, are the input
C10_Reproduces == splitDone => strip(Flatten(chunks)) = strip(text)

\* C10: the chunks of splitTextBySentence, concatenated in order and compared
\* ignoring white space, reproduce the input, and trailing text without
\* terminal punctuation is contained in the final chunk.
C10_Claim ==
  splitDone =>
    /\ strip(Flatten(chunks)) = strip(text)
    /\ strip(TrailingText(text)) # <<>> =>
         /\ chunks # <<>>
         /\ IsSuffix(strip(TrailingText(text)), strip(chunks[Len(chunks)]))

\* =================================================== claims on the pipeline
Last(q) == q[Len(q)]

\* C1: the prompt built for a scene N > 1 carries scene N-1's narrative
\* fragment exactly when scene N-1 produced a fragment without error, whatever
\* happened to the scenes before.
C1_Claim ==
  \A i \in DOMAIN prompts :
    LET N == prompts[i].sceneNumber
    IN N > 1 =>
         (prompts[i].previousSceneContext = FragText(N - 1)
            <=> outcome[N - 1] = "fragment")

\* C2: a failed interpretation call leaves an error entry without fragment
\* for its scene, the scenes after it are still visited, and unless writing
\* one of the stage's files fails the run ends with 'complete'.
C2_SceneFailureIsolated ==
  /\ \A k \in DOMAIN outcome :
       outcome[k] = "error" =>
         \E i \in DOMAIN results :
           /\ results[i].sceneNumber = k
           /\ results[i].error
           /\ results[i].storyPart = NoText
  /\ (sceneIdx > 0 /\ pc # "visionLoop") => Len(outcome) = scenes
  /\ (pc = "done" /\ \E k \in DOMAIN outcome : outcome[k] = "error") =>
       \/ Last(events).ev = "complete"
       \/ fault \in {"writeVisionResults", "writeStory"}

\* scene k failed, scene k+1 produced a fragment, the run completed
C2_Witness ==
  /\ pc = "done"
  /\ Last(events).ev = "complete"
  /\ \E k \in DOMAIN outcome :
       /\ outcome[k] = "error"
       /\ k + 1 \in DOMAIN outcome
       /\ outcome[k + 1] = "fragment"

DetectorFailed == detector # NotRun /\ (~detector.started \/ detector.code # 0)

Called(op) == \E i \in DOMAIN trace : trace[i] = Call(op)

TerminalEvents == SelectSeq(events, IsTerminal)

\* C3: when the scene detector exits non-zero or cannot be started, the run
\* stops: no audio extraction, keyframe extraction or narrative synthesis is
\* started, no result.json is written, and the caller gets one 'error' event.
C3_DetectorFailureFatal ==
  DetectorFailed =>
    /\ pc = "done"
    /\ ~Called("splitAudioByScenes")
    /\ ~Called("extractKeyframes")
    /\ ~Called("processOutputFolder")
    /\ ~Exists(files, "result.json")
    /\ TerminalEvents = <<Terminal("error")>>

C3_Witness == detector.started /\ detector.code = 1 /\ pc = "done"

\* C4: on every path of the upload handler the stream carries exactly one
\* terminal event once the handler is done, none before, and the terminal
\* event is the last event of the stream.
C4_OneTerminalEvent ==
  LET sent == events
  IN /\ \A i \in DOMAIN sent : IsTerminal(sent[i]) => i = Len(sent)
     /\ pc = "done" <=> (sent # <<>> /\ IsTerminal(sent[Len(sent)]))
     /\ pc = "done" => Len(SelectSeq(sent, IsTerminal)) = 1

\* an over-long upload was refused
C4_Witness == pc = "done" /\ fault = "tooLong"

\* the place of a trace entry in the stage sequence
Rank(e) ==
  IF e.k = "sse"
  THEN IF e.ev # "progress" THEN 10
       ELSE CASE e.step \in {"youtube", "upload"} -> 1
              [] e.step = "validation" -> 2
              [] e.step = "init" -> 3
              [] e.step = "scenes" -> 4
              [] e.step = "audio" -> 5
              [] e.step = "keyframes" -> 6
              [] e.step = "personas" -> 7
              [] e.step = "vision" -> 8
              [] e.step = "story" -> 9
  ELSE CASE e.ev = "downloadYoutubeVideo" -> 1
         [] e.ev = "getVideoDuration" -> 2
         [] e.ev = "mkdir" -> 3
         [] e.ev = "detectScenes" -> 4
         [] e.ev = "splitAudioByScenes" -> 5
         [] e.ev \in {"extractKeyframes", "writeResult"} -> 6
         [] e.ev = "writePersonas" -> 7
         [] e.ev = "processOutputFolder" -> 8
         [] e.ev = "readStory" -> 9

\* the operations whose success a 'completed' event of a step reports
OpsOf(step) ==
  CASE step = "youtube" -> {"downloadYoutubeVideo"}
    [] step = "validation" -> {"downloadYoutubeVideo", "getVideoDuration"}
    [] step = "init" -> {"mkdir"}
    [] step = "scenes" -> {"detectScenes"}
    [] step = "audio" -> {"splitAudioByScenes"}
    [] step = "keyframes" -> {"extractKeyframes"}
    [] step = "personas" -> {"writePersonas"}
    [] step = "vision" -> {"processOutputFolder"}
    [] step = "story" -> {"readStory"}
    [] OTHER -> {}

\* C5: the stages of a run execute one after the other in the order
\* acquisition, validation, init, scenes, audio, keyframes, personas,
\* narrative synthesis, terminal event: an operation is called only after the
\* operation called before it has returned, a 'completed' event follows the
\* successful return of its operation, and no entry of an earlier stage
\* follows an entry of a later stage.
C5_StagesSequential ==
  /\ LET rank == [i \in DOMAIN trace |-> Rank(trace[i])]
     IN \A i \in 1..(Len(trace) - 1) : rank[i] <= rank[i + 1]
  /\ LET called == {i \in DOMAIN trace : trace[i].k = "call"}
     IN \A i, j \in called :
          i < j => \E m \in (i + 1)..(j - 1) :
                     trace[m].k = "ret" /\ trace[m].ev = trace[i].ev
  /\ \A j \in DOMAIN trace :
       (trace[j].k = "sse" /\ trace[j].status = "completed") =>
         LET ops == OpsOf(trace[j].step)
         IN ops # {} =>
              \E i \in 1..(j - 1) :
                trace[i].k = "ret" /\ trace[i].status = "ok"
                  /\ trace[i].ev \in ops

\* a remote video with personas went through every stage
C5_Witness ==
  /\ pc = "done"
  /\ Last(events).ev = "complete"
  /\ req.resourceType = "url"
  /\ req.personas # NoText
  /\ scenes >= 2

\* the calls a run that ends with 'complete' makes, in this order
StageCalls ==
  <<"detectScenes", "splitAudioByScenes", "extractKeyframes", "writeResult",
    "processOutputFolder", "readStory">>

\* C28: once a request is accepted the handler reaches a terminal event,
\* whether or not the listener stays connected; a run that ends with
\* 'complete' called every stage, and a disconnect changes nothing but the
\* connection.
C28_RunsToTerminal ==
  /\ (pc \notin {"start", "done"})
       ~> (pc = "done" /\ Last(events).ev \in {"complete", "error"})
  /\ [](pc = "done" /\ fault = "none" =>
         \A k \in DOMAIN StageCalls :
           \E i \in DOMAIN trace :
             trace[i].k = "call" /\ trace[i].ev = StageCalls[k])
  /\ [][connected' # connected => UNCHANGED <<pc, trace, files, fault>>]_vars

\* the listener went away and the run ended with 'complete'
C28_Witness ==
  /\ ~connected
  /\ pc = "done"
  /\ fault = "none"
  /\ Last(events).ev = "complete"
  /\ scenes >= 2

\* C6: a job or story lookup answers not-found at every moment at which the
\* run of the job has not completed.
C6_Claim == lastLookup.status = 200 => lastLookup.completed

\* C24: every progress event sent on the channel, on the upload path and on
\* the download path, has the status started, processing or completed.
C24_Claim ==
  \A i \in DOMAIN events :
    events[i].ev = "progress" =>
      events[i].status \in {"started", "processing", "completed"}

\* an audio extraction or a frame extraction that was attempted failed: a
\* scene of positive duration has no audio segment, or a scene has fewer
\* keyframes than were asked for
SomeExtractionFailed ==
  \/ \E k \in 1..scenes :
       /\ sceneDuration(parseSceneList(detector.csv)[k]) > 0
       /\ ~HasAudio(audioSegments, k)
  \/ \E k \in DOMAIN keyframeData : keyframeData[k] < keyframesPerScene

\* C25: the counters of result.json and of the summary of 'complete' are the
\* number of scenes segmentation returned, the number of audio segments and
\* the sum of the keyframes of all scenes; when no extraction failed they
\* are n, n and n * keyframesPerScene for n scenes.
C25_Claim ==
  /\ Exists(files, "result.json") =>
       /\ files["result.json"].scenesDetected = scenes
       /\ files["result.json"].audioSegments = Len(audioSegments)
       /\ files["result.json"].keyframesExtracted = Sum(keyframeData)
       /\ ~SomeExtractionFailed =>
            files["result.json"] =
              [scenesDetected |-> scenes, audioSegments |-> scenes,
               keyframesExtracted |-> scenes * keyframesPerScene]
  /\ (pc = "done" /\ fault = "none") =>
       /\ summary = files["result.json"]
       /\ ~SomeExtractionFailed =>
            summary = [scenesDetected |-> scenes, audioSegments |-> scenes,
                       keyframesExtracted |-> scenes * keyframesPerScene]

\* C38: in a job with at least one scene, a progress event of step vision
\* with status processing is sent between the vision events started and
\* completed.
C38_Claim ==
  \A j \in DOMAIN events :
    (/\ events[j].ev = "progress"
     /\ events[j].step = "vision"
     /\ events[j].status = "completed"
     /\ scenes >= 1)
      => \E i \in 1..(j - 1) :
           /\ events[i].ev = "progress"
           /\ events[i].step = "vision"
           /\ events[i].status = "processing"

\* C36: at every moment of a run story.txt exists only if
\* vision_results.json exists, and vision_results.json only if result.json
\* exists; vision_results.json is there, holding the results of the scene
\* loop, from before the composition call on, whether that call fails or not.
C36_ArtifactOrder ==
  /\ Exists(files, "story.txt") => Exists(files, "vision_results.json")
  /\ Exists(files, "vision_results.json") => Exists(files, "result.json")
  /\ (pc = "compose" \/ composition # "none") =>
       /\ Exists(files, "vision_results.json")
       /\ files["vision_results.json"] = results

\* the composition call failed and story.txt could not be written: the
\* analysis file is there without the story
C36_Witness ==
  /\ composition = "failed"
  /\ fault = "writeStory"
  /\ scenes >= 2
  /\ Exists(files, "vision_results.json")
  /\ ~Exists(files, "story.txt")

\* C32: in the result manifest and in the job descriptors the audioPath of
\* scene n is null or the clip extracted for scene n itself, never the clip
\* of another scene, whichever audio extractions were skipped or failed.
C32_Claim ==
  \A n \in DOMAIN sceneData : sceneData[n] \in {0, n}

\* the scenes whose result carries a fragment or a description
Contributing ==
  {k \in DOMAIN outcome : outcome[k] \in {"fragment", "described"}}

\* C31: the composition call gets one contribution from each scene whose
\* result carries a fragment or a description and from no other scene, in
\* ascending scene-number order, each being the fragment or else the
\* description of its scene; a scene with an error marker contributes nothing
\* to that input, and nothing to the fallback narrative.
C31_CompositionInput ==
  /\ storyInput.called =>
       /\ {storyInput.scenes[i].sceneNumber : i \in DOMAIN storyInput.scenes}
            = Contributing
       /\ \A i, j \in DOMAIN storyInput.scenes :
            i < j => storyInput.scenes[i].sceneNumber
                       < storyInput.scenes[j].sceneNumber
       /\ \A i \in DOMAIN storyInput.scenes :
            LET k == storyInput.scenes[i].sceneNumber
            IN /\ outcome[k] # "error"
               /\ storyInput.scenes[i].text =
                    IF outcome[k] = "fragment" THEN FragText(k)
                    ELSE DescText(k)
  /\ (composition = "failed" /\ Exists(files, "story.txt")) =>
       /\ files["story.txt"] =
            FallbackStory(SelectSeq(results, LAMBDA r : ~r.error))
       /\ \A k \in DOMAIN outcome :
            outcome[k] = "error" =>
              \A m \in DOMAIN files["story.txt"] :
                files["story.txt"][m] # Letters[k]

\* the composition call failed after a scene with a fragment, a scene with a
\* description only and a scene with an error marker, and the fallback was
\* written
C31_Witness ==
  /\ storyInput.called
  /\ composition = "failed"
  /\ Exists(files, "story.txt")
  /\ Len(storyInput.scenes) = 2
  /\ \E a, b, c \in DOMAIN outcome :
       /\ outcome[a] = "error"
       /\ outcome[b] = "fragment"
       /\ outcome[c] = "described"
       /\ a < b

\* C35: personas given with the upload are in personas.txt before
\* processOutputFolder is called and are loaded once, so that the prompt of
\* every scene and the composition call carry the same personas, which are
\* the trimmed text given or none; without personas in the upload there is
\* no personas event, no personas.txt, and no prompt or composition input
\* carries personas.
C35_Personas ==
  /\ (req.personas # NoText /\ Called("processOutputFolder")) =>
       /\ Exists(files, "personas.txt")
       /\ files["personas.txt"] = req.personas
       /\ \A j \in DOMAIN trace :
            trace[j] = Call("processOutputFolder") =>
              \E i \in 1..(j - 1) :
                trace[i] = Progress("personas", "completed")
  /\ \A i \in DOMAIN prompts : prompts[i].personas = personas
  /\ storyInput.called => storyInput.personas = personas
  /\ personas \in {NoText, trim(req.personas)}
  /\ req.personas = NoText =>
       /\ \A i \in DOMAIN trace : trace[i] # Progress("personas", "completed")
       /\ ~Exists(files, "personas.txt")
       /\ personas = NoText

\* personas were given, two scenes got a prompt with them, trimmed, and so
\* did the composition call
C35_Witness ==
  /\ req.personas # NoText
  /\ personas # NoText
  /\ personas # req.personas
  /\ Len(prompts) >= 2
  /\ storyInput.called
  /\ storyInput.personas = personas

\* C30: whenever the prompt of scene N carries continuity context, it is the
\* fragment recorded for scene N-1, and scene N-1 produced that fragment: the
\* context is never an earlier scene's fragment and never passes over a scene
\* with an error marker or without an entry.
C30_ContextIsPrevious ==
  \A i \in DOMAIN prompts :
    LET N == prompts[i].sceneNumber
    IN prompts[i].previousSceneContext # NoText =>
         /\ N > 1
         /\ outcome[N - 1] = "fragment"
         /\ prompts[i].previousSceneContext = FragText(N - 1)
         /\ \E j \in DOMAIN results :
              /\ results[j].sceneNumber = N - 1
              /\ ~results[j].error
              /\ results[j].storyPart = prompts[i].previousSceneContext

\* one prompt carries context, and the prompt of a scene that follows a
\* failed or skipped scene carries none
C30_Witness ==
  /\ pc = "done"
  /\ \E i \in DOMAIN prompts : prompts[i].previousSceneContext # NoText
  /\ \E k \in DOMAIN outcome :
       /\ outcome[k] \in {"error", "noimages"}
       /\ \E j \in DOMAIN prompts :
            /\ prompts[j].sceneNumber = k + 1
            /\ prompts[j].previousSceneContext = NoText

\* =================================================== claims on the narration
\* C7: after a narration request succeeded, a later request on the same
\* endpoint returns exactly the bytes the first one stored and makes no call
\* of the speech capability, on the chunk path and on the whole-story path.
C7_CachedNarration ==
  \A i, j \in DOMAIN narrLog :
    (i < j /\ narrLog[i].ep = narrLog[j].ep /\ narrLog[i].status = 200) =>
      /\ narrLog[j].status = 200
      /\ narrLog[j].body = narrLog[i].body
      /\ narrLog[j].tts = 0

\* each endpoint generated its narration and then served it again
C7_Witness ==
  \A ep \in {"narration", "final"} :
    \E i \in DOMAIN narrLog :
      /\ (i + 1) \in DOMAIN narrLog
      /\ narrLog[i].ep = ep /\ narrLog[i + 1].ep = ep
      /\ narrLog[i].status = 200 /\ ~narrLog[i].cached
      /\ narrLog[i + 1].cached

\* the response i of the log generated its audio: speech was synthesized and
\* the result stored
Generated(i) ==
  narrLog[i].status = 200 /\ ~narrLog[i].cached /\ narrLog[i].tts > 0

\* C23: the chunk path keeps its audio in narration.mp3 and the whole-story
\* path in narration_final.mp3: each artifact holds what its own path
\* generated, whatever was requested on the other path in between, and a
\* cached response returns audio that the same path generated earlier.
C23_DistinctArtifacts ==
  /\ Exists(files, "narration.mp3") =>
       \E i \in DOMAIN narrLog :
         /\ narrLog[i].ep = "narration"
         /\ Generated(i)
         /\ narrLog[i].body = files["narration.mp3"]
  /\ Exists(files, "narration_final.mp3") =>
       \E i \in DOMAIN narrLog :
         /\ narrLog[i].ep = "final"
         /\ Generated(i)
         /\ narrLog[i].body = files["narration_final.mp3"]
  /\ \A j \in DOMAIN narrLog :
       narrLog[j].cached =>
         \E i \in 1..(j - 1) :
           /\ narrLog[i].ep = narrLog[j].ep
           /\ Generated(i)
           /\ narrLog[i].body = narrLog[j].body
  /\ \A ep \in {"narration", "final"} :
       Cardinality({i \in DOMAIN narrLog : narrLog[i].ep = ep /\ Generated(i)})
         <= 1

\* the whole-story audio was generated first, then the chunk audio, the two
\* differ, and each path then served its own from the cache
C23_Witness ==
  /\ Exists(files, "narration.mp3")
  /\ Exists(files, "narration_final.mp3")
  /\ files["narration.mp3"] # files["narration_final.mp3"]
  /\ Len(narrLog) = 4
  /\ narrLog[1].ep = "final" /\ Generated(1)
  /\ narrLog[2].ep = "narration" /\ Generated(2)
  /\ narrLog[3].ep = "final" /\ narrLog[3].cached
  /\ narrLog[4].ep = "narration" /\ narrLog[4].cached

\* two calls were under way at once
Concurrent(c, d) == c \in calls[d].with \/ d \in calls[c].with

\* C33: of the narration requests for a job that are under way at once on
\* one path, at most one invokes the speech capability, whatever the
\* interleaving; the others are served the cached artifact.
C33_Claim ==
  \A c, d \in DOMAIN calls :
    (c # d /\ calls[c].ep = calls[d].ep /\ Concurrent(c, d)) =>
      ~(calls[c].tts > 0 /\ calls[d].tts > 0)

\* C34: a request whose speech call fails answers with an error and writes no
\* artifact, a request that finds no artifact does not answer from the cache
\* but goes on to synthesis, and an artifact that exists is never written
\* again.
C34_Claim ==
  [][/\ \A c \in DOMAIN calls :
          (calls[c].pc = "synth" /\ calls'[c].pc = "done") =>
            /\ calls'[c].status = 500
            /\ files' = files
     /\ \A c \in DOMAIN calls :
          (calls[c].pc = "access" /\ calls'[c].pc = "readCache") =>
            Exists(files, audioOutputPath(calls[c].ep))
     /\ \A name \in {"narration.mp3", "narration_final.mp3"} :
          Exists(files, name) => files'[name] = files[name]]_vars

\* C26: a narration request for a job whose analysis file (chunk path) or
\* story file (whole-story path) was never written answers 404, invokes no
\* speech synthesis and writes no audio artifact.
C26_Claim ==
  \A i \in DOMAIN narrLog :
    /\ (narrLog[i].ep = "narration" /\ ~Exists(files, "vision_results.json"))
         => /\ narrLog[i].status = 404
            /\ narrLog[i].tts = 0
            /\ ~Exists(files, "narration.mp3")
    /\ (narrLog[i].ep = "final" /\ ~Exists(files, "story.txt"))
         => /\ narrLog[i].status = 404
            /\ narrLog[i].tts = 0
            /\ ~Exists(files, "narration_final.mp3")

\* C8: when chunking yields n > 1 chunks, the speech capability is invoked
\* once per chunk and the stored narration is the n outputs in chunk order.
C8_Claim ==
  \A i \in DOMAIN narrLog :
    (narrLog[i].ep = "narration" /\ narrLog[i].status = 200
       /\ ~narrLog[i].cached) =>
      LET textChunks == TextChunks(files["vision_results.json"])
      IN Len(textChunks) > 1 =>
           /\ narrLog[i].tts = Len(textChunks)
           /\ Len(files["narration.mp3"]) = Len(textChunks)
           /\ \A m \in DOMAIN textChunks :
                files["narration.mp3"][m].input = textChunks[m]

\* ================================================ claims on the synthesizer
RECURSIVE FragmentsOf(_, _)
\* the fragments of the scenes k, k+1, ... that produced one, in scene order
FragmentsOf(os, k) ==
  IF k > Len(os) THEN <<>>
  ELSE (IF os[k] = "fragment" THEN <<FragText(k)>> ELSE <<>>)
       \o FragmentsOf(os, k + 1)

\* C11: when the composition call fails, story.txt holds the fragments of
\* the scenes that produced one, in ascending scene order, joined by
\* paragraph breaks, and the run is not failed by the composition error: it
\* ends with 'complete' unless writing story.txt itself fails.
C11_FallbackStory ==
  composition = "failed" =>
    /\ Exists(files, "story.txt") =>
         files["story.txt"] = Join(FragmentsOf(outcome, 1), ParagraphBreak)
    /\ fault \in {"none", "writeStory"}
    /\ (pc = "done" /\ fault = "none") =>
         /\ Exists(files, "story.txt")
         /\ Last(events).ev = "complete"

\* the composition failed after two scenes produced a fragment and another
\* one did not, and the run completed
C11_Witness ==
  /\ composition = "failed"
  /\ pc = "done"
  /\ fault = "none"
  /\ Cardinality({k \in DOMAIN outcome : outcome[k] = "fragment"}) >= 2
  /\ \E k \in DOMAIN outcome : outcome[k] # "fragment"

\* C12: when the composition call fails and the interpretation call of at
\* least one scene returned a response without error, the narrative written
\* to story.txt is not empty.
C12_Claim ==
  (/\ composition = "failed"
   /\ Exists(files, "story.txt")
   /\ \E k \in DOMAIN outcome : outcome[k] \in {"fragment", "raw"})
    => files["story.txt"] # NoText

\* C13: an interpretation response that cannot be parsed is stored as the
\* narrative fragment of its scene, and is the continuity context of the
\* prompt of the next scene.
C13_Claim ==
  \A k \in DOMAIN outcome :
    outcome[k] = "raw" =>
      /\ \E i \in DOMAIN results :
           /\ results[i].sceneNumber = k
           /\ results[i].storyPart = RawText(k)
      /\ \A i \in DOMAIN prompts :
           prompts[i].sceneNumber = k + 1 =>
             prompts[i].previousSceneContext = RawText(k)

\* C20: a scene without keyframe images gets no transcription call, no
\* interpretation call and no entry in the results (neither fragment nor
\* error marker); the loop still visits every scene, and every scene with
\* images gets its interpretation call.
C20_NoImagesSkipped ==
  /\ \A k \in DOMAIN outcome :
       keyframeData[k] = 0 =>
         /\ \A i \in DOMAIN transcripts : transcripts[i] # k
         /\ \A i \in DOMAIN prompts : prompts[i].sceneNumber # k
         /\ \A i \in DOMAIN results : results[i].sceneNumber # k
  /\ \A k \in DOMAIN outcome :
       keyframeData[k] > 0 =>
         \E i \in DOMAIN prompts : prompts[i].sceneNumber = k
  /\ pc \in {"compose", "readStory"} => Len(outcome) = scenes

\* a scene with an audio segment but no images was skipped, the scene after
\* it produced a fragment, and the run completed
C20_Witness ==
  /\ pc = "done"
  /\ fault = "none"
  /\ \E k \in DOMAIN outcome :
       /\ keyframeData[k] = 0
       /\ HasAudio(audioSegments, k)
       /\ (k + 1) \in DOMAIN outcome
       /\ outcome[k + 1] = "fragment"

\* ============================================== claims on the scene detector
\* C14: when the detector exits with code 0 and there is no scene list file,
\* or one without data rows, detectScenes returns exactly one scene.
C14_Claim ==
  (/\ detector.started
   /\ detector.code = 0
   /\ (~detector.csv.present \/ detector.csv.rows = 0))
    => scenes = 1

\* a scene list with a data row whose number or times are not numbers
Unparsable(csv) == csv.present /\ (csv.badNumber \cup csv.badTimes) # {}

\* C27: when the detector exits with code 0 and the scene list has a data row
\* whose scene number or times are not numbers, detectScenes rejects, and no
\* scene with a non-numeric number or time is returned.
C27_Claim ==
  /\ (detectRun.state # "idle" /\ Unparsable(sceneListFile))
       => detectRun.state = "rejected"
  /\ detectRun.state = "resolved"
       => \A k \in DOMAIN detectRun.scenes :
            detectRun.scenes[k].numberOk /\ detectRun.scenes[k].timesOk

\* ========================================= claims on the queue publisher
\* C21: publishSceneJobs never throws and returns one descriptor per scene in
\* the order of the scenes; the descriptors went to the queue, or, when the
\* module held no queue or addBulk failed, to the local log.
C21_PublishReturnsJobs ==
  \A r \in DOMAIN runs :
    /\ runs[r].publish # "threw"
    /\ runs[r].pc \in {"published", "thrown"} => runs[r].publish = "returned"
    /\ runs[r].publish = "returned" =>
         /\ runs[r].jobs = Descriptors(r, runs[r].n)
         /\ (runs[r].used = 0 \/ runs[r].bulk = "failed") =>
              runs[r].logged = runs[r].jobs /\ runs[r].queued = <<>>
         /\ (runs[r].used # 0 /\ runs[r].bulk = "ok") =>
              runs[r].queued = runs[r].jobs /\ runs[r].logged = <<>>

\* one run published two jobs through the queue, another run's addBulk
\* failed and its two jobs were logged
C21_Witness ==
  \E r1, r2 \in DOMAIN runs :
    /\ runs[r1].publish = "returned" /\ runs[r1].bulk = "ok"
    /\ Len(runs[r1].queued) = 2
    /\ runs[r2].publish = "returned" /\ runs[r2].bulk = "failed"
    /\ Len(runs[r2].logged) = 2

\* C22: a run whose extraction completed and whose result.json was written
\* resolves, whatever initQueue, publishSceneJobs and closeQueue did.
C22_Claim ==
  \A r \in DOMAIN runs :
    (runs[r].pc = "done" /\ runs[r].extracted /\ runs[r].written)
      => runs[r].outcome = "resolved"

\* C29: runs under way at once do not touch each other's connection: a run
\* publishes with the queue it initialised, that queue is not closed by
\* another run while it publishes, a handle is closed only by the run that
\* opened it, and a finished run has closed the handle it opened.
C29_Claim ==
  /\ \A r \in DOMAIN runs :
       /\ runs[r].used # 0 => runs[r].used = runs[r].own
       /\ runs[r].pc = "addBulk" =>
            (handles[runs[r].used].queueClosedBy
               \cup handles[runs[r].used].quitBy) \subseteq {r}
       /\ (runs[r].pc = "done" /\ runs[r].own # 0) =>
            r \in handles[runs[r].own].quitBy
  /\ \A h \in DOMAIN handles :
       (handles[h].queueClosedBy \cup handles[h].quitBy)
         \subseteq {handles[h].openedBy}

\* ================================================ claims on the extractors
SceneNumbersOf(q) == {q[i].sceneNumber : i \in DOMAIN q}
Elements(q) == {q[i] : i \in DOMAIN q}

\* C15: a scene with endTime - startTime <= 0 gets no audio extraction
\* attempt and appears neither in the list splitAudioByScenes returns nor in
\* the audio manifest, and the call returns whenever its manifest is written.
C15_InvalidDurationSkipped ==
  audioRun.state # "idle" =>
    /\ \A i \in DOMAIN sceneList :
         sceneList[i].endTime - sceneList[i].startTime <= 0 =>
           /\ sceneList[i].sceneNumber \notin Elements(audioRun.attempts)
           /\ sceneList[i].sceneNumber \notin SceneNumbersOf(audioRun.results)
           /\ sceneList[i].sceneNumber \notin SceneNumbersOf(audioRun.manifest)
    /\ audioRun.written => audioRun.state = "returned"

\* a scene of duration 0 was skipped next to a scene that got its segment
C15_Witness ==
  /\ audioRun.state = "returned"
  /\ \E i \in DOMAIN sceneList :
       sceneList[i].endTime - sceneList[i].startTime = 0
  /\ audioRun.results # <<>>

\* the scenes of positive duration whose extraction did not fail (in the
\* scene lists tried, the number of a scene is its position)
ExtractedScenes ==
  SelectSeq(sceneList,
            LAMBDA sc : /\ sc.endTime - sc.startTime > 0
                        /\ sc.sceneNumber \notin audioRun.failed)

\* C16: whichever audio extractions fail, splitAudioByScenes returns unless
\* its manifest cannot be written, and what it returns and writes to the
\* manifest is exactly the positive-duration scenes whose extraction
\* succeeded, in input order, each with its own scene number and times.
C16_AudioFailuresIsolated ==
  audioRun.state # "idle" =>
    /\ audioRun.state = "threw" => ~audioRun.written
    /\ Len(audioRun.results) = Len(ExtractedScenes)
    /\ \A i \in DOMAIN audioRun.results :
         /\ audioRun.results[i].sceneNumber = ExtractedScenes[i].sceneNumber
         /\ audioRun.results[i].startTime = ExtractedScenes[i].startTime
         /\ audioRun.results[i].endTime = ExtractedScenes[i].endTime
    /\ audioRun.state = "returned" => audioRun.manifest = audioRun.results

\* one extraction failed, another one succeeded, and the call returned
C16_Witness ==
  /\ audioRun.state = "returned"
  /\ \E i \in audioRun.failed :
       sceneList[i].sceneNumber \in Elements(audioRun.attempts)
  /\ audioRun.results # <<>>

\* C17: for a scene with start s, duration D > 0 and count K, the i-th
\* sampled timestamp is s + D*i/(K+1) (here times (K+1)); the timestamps are
\* strictly increasing and lie strictly between the start and the end.
C17_InteriorTimestamps ==
  \A n \in DOMAIN keyframeRun.sampled :
    LET s  == sceneList[n].startTime
        e  == sceneList[n].endTime
        K  == keyframeRun.count
        ts == keyframeRun.sampled[n]
    IN e - s > 0 =>
         /\ DOMAIN ts = 1..K
         /\ \A i \in 1..K : ts[i] = (K + 1) * s + (e - s) * i
         /\ \A i \in 1..(K - 1) : ts[i] < ts[i + 1]
         /\ \A i \in 1..K : (K + 1) * s < ts[i] /\ ts[i] < (K + 1) * e

\* three frames were sampled in a scene of positive duration that does not
\* start at 0
C17_Witness ==
  /\ keyframeRun.count = keyframesPerScene
  /\ \E n \in DOMAIN keyframeRun.sampled :
       /\ sceneList[n].endTime - sceneList[n].startTime > 0
       /\ sceneList[n].startTime > 0

\* C18: whichever frame extractions fail, the keyframe records of a scene
\* carry the indices 1..m, m being the number of frames that succeeded.
C18_Claim ==
  \A n \in DOMAIN keyframeRun.results :
    LET kfs == keyframeRun.results[n].keyframes
    IN /\ Len(kfs) = keyframeRun.count - Cardinality(keyframeRun.failed[n])
       /\ \A i \in DOMAIN kfs : kfs[i].index = i

\* C37: the frame extractions of a scene end in any order, some of them with
\* an error; the records returned for the scene are in ascending order of
\* index without a repeated index, they are the records of the frames whose
\* extraction ended well, and the path of each names the frame file of the
\* record's own index.
C37_SortedKeyframes ==
  \A n \in DOMAIN keyframeRun.results :
    LET kfs == keyframeRun.results[n].keyframes
    IN /\ \A i, j \in DOMAIN kfs : i < j => kfs[i].index < kfs[j].index
       /\ {kfs[i].index : i \in DOMAIN kfs}
            = (1..keyframeRun.count) \ keyframeRun.failed[n]
       /\ \A i \in DOMAIN kfs :
            kfs[i].path = [file |-> "frame", number |-> kfs[i].index]

\* the frames of a scene ended in the order 3, 1 after frame 2 had failed
C37_Witness ==
  \E n \in DOMAIN keyframeRun.results :
    /\ keyframeRun.failed[n] = {2}
    /\ keyframeRun.finished[n] = <<3, 1>>
    /\ Len(keyframeRun.results[n].keyframes) = 2

\* C19: a failing frame extraction never fails extractKeyframes: the call
\* returns unless its manifest cannot be written, with one entry per input
\* scene, in input order, each holding the records of the frames that
\* succeeded (between 0 and K), and the manifest holds the same list.
C19_FrameFailuresIsolated ==
  /\ keyframeRun.state = "threw" =>
       /\ Len(keyframeRun.results) = Len(sceneList)
       /\ ~keyframeRun.written
  /\ \A n \in DOMAIN keyframeRun.results :
       /\ keyframeRun.results[n].sceneNumber = sceneList[n].sceneNumber
       /\ Len(keyframeRun.results[n].keyframes) \in 0..keyframeRun.count
       /\ Len(keyframeRun.results[n].keyframes) =
            keyframeRun.count - Cardinality(keyframeRun.failed[n])
  /\ keyframeRun.state = "returned" =>
       /\ Len(keyframeRun.results) = Len(sceneList)
       /\ keyframeRun.manifest = keyframeRun.results

\* two scenes, one lost a frame and one lost all of them, and the call returned
C19_Witness ==
  /\ keyframeRun.state = "returned"
  /\ Len(keyframeRun.results) >= 2
  /\ \E n \in DOMAIN keyframeRun.failed :
       /\ keyframeRun.failed[n] # {}
       /\ keyframeRun.failed[n] # 1..keyframeRun.count
  /\ \E n \in DOMAIN keyframeRun.failed :
       keyframeRun.failed[n] = 1..keyframeRun.count

====
